---- MODULE Spec2Model ----
(***************************************************************************)
(* Model of the recommendation core of the song recommendation system:     *)
(* RecommendationEngine (src/src/recommendation_engine.py) together with   *)
(* the two catalog clients it can be constructed with                      *)
(* (src/src/core/spotify.py and src/src/spotify_client.py).                *)
(*                                                                         *)
(* Numbers.  TLC has integers only, so every float of the program is kept  *)
(* as an exact integer in a fixed unit:                                    *)
(*   - the 0..1 audio features are held in quarters (4 is 1.0);     *)
(*   - a feature vector component is held in quarters as well;             *)
(*   - a cosine similarity is the pair (dot, nn) standing for              *)
(*     dot / sqrt(nn); a cluster confidence is the pair (d2, m2) standing  *)
(*     for 1 - sqrt(d2 / m2).  Thresholds and orderings are decided        *)
(*     exactly on these pairs, never on rounded values.                    *)
(***************************************************************************)
EXTENDS Integers, Sequences, FiniteSets, TLC

----
(* Generic helpers *)

Range(s) == {s[i] : i \in 1..Len(s)}

RECURSIVE SumSeq(_)
SumSeq(s) == IF s = <<>> THEN 0 ELSE Head(s) + SumSeq(Tail(s))

\* the sub-sequence of s at the positions in keep, in order, from position i
RECURSIVE SelectIdx(_, _, _)
SelectIdx(s, keep, i) ==
    IF i > Len(s) THEN <<>>
    ELSE (IF i \in keep THEN <<s[i]>> ELSE <<>>) \o SelectIdx(s, keep, i + 1)

\* all sequences over S of length at most n
SeqsUpTo(S, n) == UNION {[1..k -> S] : k \in 0..n}

\* Python slice s[:n] for any integer n (a negative n counts from the end)
PySliceTo(s, n) ==
    LET stop == IF n >= 0 THEN (IF n < Len(s) THEN n ELSE Len(s))
                ELSE (IF Len(s) + n > 0 THEN Len(s) + n ELSE 0)
    IN  SubSeq(s, 1, stop)

\* the order taken as it comes, the [::-1] forgotten
Reverse_mut(s) == s

Reverse(s) == [i \in 1..Len(s) |-> s[Len(s) + 1 - i]]

----
(* Catalog: tracks and their audio features *)

\* length of a feature vector
Dim == 12

Tracks == {"t1", "t2", "t3", "t4", "t5", "t6", "t7", "t8"}

\* an AudioFeatures record; the seven 0..1 fields are in quarters
AF(d, e, k, l, m, s, a, i, lv, v, t, ts) ==
    [danceability |-> d, energy |-> e, key |-> k, loudness |-> l, mode |-> m,
     speechiness |-> s, acousticness |-> a, instrumentalness |-> i,
     liveness |-> lv, valence |-> v, tempo |-> t, duration_ms |-> 200000,
     time_signature |-> ts]

\* what the catalog holds for each track
Catalog ==
    [t \in Tracks |->
        CASE t = "t1" -> AF(3, 0, 0, -60, 0, 0, 0, 0, 0, 0, 0, 1)
          [] t = "t2" -> AF(3, 1, 0, -60, 0, 0, 0, 0, 0, 0, 0, 1)
          [] t = "t3" -> AF(0, 3, 0, -60, 0, 0, 0, 0, 0, 0, 0, 1)
          [] t = "t4" -> AF(3, 0, 0, -60, 0, 1, 0, 0, 0, 0, 0, 1)
          [] t = "t5" -> AF(0, 0, 11, 0, 0, 0, 0, 0, 0, 0, 0, 1)
          [] t = "t6" -> AF(0, 0, 0, -60, 0, 0, 0, 0, 0, 0, 0, 1)
          [] t = "t7" -> AF(4, 0, 0, -60, 0, 0, 0, 0, 0, 0, 0, 1)
          [] t = "t8" -> AF(3, 4, 0, -60, 0, 0, 0, 0, 0, 0, 0, 1)]

\* RecommendationEngine._extract_feature_vector, in quarters
extract_feature_vector(af) ==
    << af.danceability,
       af.energy,
       (af.key * 4) \div 11,
       ((af.loudness + 60) * 4) \div 60,
       af.mode * 4,
       af.speechiness,
       af.acousticness,
       af.instrumentalness,
       af.liveness,
       af.valence,
       (af.tempo * 4) \div 200,
       (af.time_signature * 4) \div 4 >>

\* the catalog values sit on the grid where the divisions above are exact
CatalogOnGrid ==
    \A t \in Tracks :
        /\ (Catalog[t].key * 4) % 11 = 0
        /\ ((Catalog[t].loudness + 60) * 4) % 60 = 0
        /\ (Catalog[t].tempo * 4) % 200 = 0
        /\ Catalog[t].time_signature >= 1

zeros == [i \in 1..Dim |-> 0]

Dot(a, b) == SumSeq([i \in 1..Dim |-> a[i] * b[i]])

----
(* Catalog client: feature and metadata fetches *)

\* the client classes an engine can be constructed with:
\* "core" is src/src/core/spotify.py, "legacy" is src/src/spotify_client.py
Clients == {"core", "legacy"}

Ok(v) == [err |-> FALSE, val |-> v]
Err(v) == [err |-> TRUE, val |-> v]

\* a batch fetch that re-raises the first failure whatever the client
get_multiple_track_features_mut(client, track_uris, ok) ==
    IF \A i \in 1..Len(track_uris) : track_uris[i] \in ok
    THEN Ok([i \in 1..Len(track_uris) |-> Catalog[track_uris[i]]])
    ELSE Err(<<>>)

\* SpotifyClient.get_multiple_track_features; ok is the set of tracks whose
\* fetch succeeds.  The core client drops the failed items, the legacy
\* client re-raises the first failure.
get_multiple_track_features(client, track_uris, ok) ==
    IF client = "core"
    THEN Ok(SelectIdx([i \in 1..Len(track_uris) |-> Catalog[track_uris[i]]],
                      {i \in 1..Len(track_uris) : track_uris[i] \in ok}, 1))
    ELSE IF \A i \in 1..Len(track_uris) : track_uris[i] \in ok
         THEN Ok([i \in 1..Len(track_uris) |-> Catalog[track_uris[i]]])
         ELSE Err(<<>>)

\* SpotifyClient.get_track_info exists on the legacy client only; on the
\* core client the attribute lookup itself raises
HasGetTrackInfo(client) == client = "legacy"

\* a lookup that answers with the Track of another uri
TrackOf_mut(uri) == [track_uri |-> "t1", track_name |-> "t1"]

\* the Track value get_track_info builds for a uri
TrackOf(uri) == [track_uri |-> uri, track_name |-> uri]

----
(* Preference Aggregator *)

\* category weights, in tenths
WeightLoved == 10
WeightLiked == 7
WeightOkay == 4
WeightSearched == 3

Users(S, n) ==
    [loved_it : SeqsUpTo(S, n), like_it : SeqsUpTo(S, n), okay : SeqsUpTo(S, n),
     hate_it : SeqsUpTo(S, n), recently_searched : SeqsUpTo(S, n)]

\* a preference vector is num / den, component-wise, in quarters
ZeroPref == [num |-> zeros, den |-> 1]

\* the hated tracks averaged in with the positive ones
positive_tracks_mut(u) ==
    u.loved_it \o u.like_it \o u.okay \o u.recently_searched \o u.hate_it

positive_tracks(u) == u.loved_it \o u.like_it \o u.okay \o u.recently_searched

\* the weight the code assigns to one entry of positive_tracks
WeightOf(u, track) ==
    IF track \in Range(u.loved_it) THEN WeightLoved
    ELSE IF track \in Range(u.like_it) THEN WeightLiked
    ELSE IF track \in Range(u.okay) THEN WeightOkay
    ELSE WeightSearched

\* numpy.average(matrix, axis=0, weights=w): the weights must be as many as
\* the rows
np_average(feature_vectors, weights) ==
    IF Len(weights) # Len(feature_vectors) THEN Err(ZeroPref)
    ELSE Ok([num |-> [c \in 1..Dim |->
                        SumSeq([i \in 1..Len(weights) |->
                                  weights[i] * feature_vectors[i][c]])],
             den |-> SumSeq(weights)])

\* `weights` is a Python list and line 214 calls weights.flatten() on it: a
\* list has no such attribute, so evaluating the argument raises
ListHasFlatten == FALSE

\* RecommendationEngine.get_user_preference_vector.  err is the
\* PlaylistGenerationError of line 221; calls is the list of tracks the
\* catalog was asked for.
get_user_preference_vector(u, client, ok) ==
    IF positive_tracks(u) = <<>>
    THEN [err |-> FALSE, val |-> ZeroPref, calls |-> <<>>]
    ELSE LET fetched == get_multiple_track_features(client, positive_tracks(u), ok)
             feature_vectors ==
                 [i \in 1..Len(fetched.val) |-> extract_feature_vector(fetched.val[i])]
             weights == [i \in 1..Len(positive_tracks(u)) |->
                            WeightOf(u, positive_tracks(u)[i])]
             outcome ==
                 IF fetched.err THEN Err(ZeroPref)
                 ELSE IF feature_vectors = <<>> THEN Ok(ZeroPref)
                 ELSE IF ~ListHasFlatten THEN Err(ZeroPref)
                 ELSE np_average(feature_vectors, weights)
         IN  [err |-> outcome.err, val |-> outcome.val,
              calls |-> positive_tracks(u)]

----
(* Scores *)

\* cosine similarity of two vectors as the pair dot / sqrt(nn); sklearn
\* leaves a zero-norm row at zero, which gives similarity 0
cosine_similarity(a, b) ==
    IF Dot(a, a) = 0 \/ Dot(b, b) = 0
    THEN [kind |-> "cos", dot |-> 0, nn |-> 1]
    ELSE [kind |-> "cos", dot |-> Dot(a, b), nn |-> Dot(a, a) * Dot(b, b)]

SignedSquare(x) == IF x >= 0 THEN x * x ELSE 0 - x * x

\* exact comparisons of two scores of the same kind
ScoreLess(x, y) ==
    IF x.kind = "cos"
    THEN SignedSquare(x.dot) * y.nn < SignedSquare(y.dot) * x.nn
    ELSE x.d2 * y.m2 > y.d2 * x.m2

\* the threshold test written >= instead of >
AboveMinSimilarity_mut(x) == x.dot > 0 /\ 100 * x.dot * x.dot >= x.nn

\* similarity > 0.1
AboveMinSimilarity(x) == x.dot > 0 /\ 100 * x.dot * x.dot > x.nn

\* the threshold test written >= instead of >
AboveMinConfidence_mut(x) == 100 * x.d2 <= 64 * x.m2

\* confidence 1 - sqrt(d2 / m2) > 0.2, that is sqrt(d2 / m2) < 0.8
AboveMinConfidence(x) == 100 * x.d2 < 64 * x.m2

\* numpy.argsort(scores): every index order that is ascending in score.
\* The default sort kind is not stable, so each order of equal scores is a
\* possible outcome.
ArgsortOutcomes(scores) ==
    {p \in [1..Len(scores) -> 1..Len(scores)] :
        /\ \A i, j \in 1..Len(scores) : i # j => p[i] # p[j]
        /\ \A i, j \in 1..Len(scores) :
              i < j => ~ScoreLess(scores[p[j]], scores[p[i]])}

----
(* Feature cache and candidate vectors, shared by both scorers *)

\* the engine's _feature_cache is a function from the cached tracks to
\* their vectors
EmptyCache == [t \in {} |-> zeros]

get_cached_features(cache, track_uri) ==
    IF track_uri \in DOMAIN cache THEN Ok(cache[track_uri]) ELSE Err(zeros)

\* a write that leaves an entry already present as it is
cache_features_mut(cache, track_uri, features) ==
    [t \in DOMAIN cache \cup {track_uri} |->
        IF t \in DOMAIN cache THEN cache[t] ELSE features]

cache_features(cache, track_uri, features) ==
    [t \in DOMAIN cache \cup {track_uri} |->
        IF t = track_uri THEN features ELSE cache[t]]

\* the loop of lines 251-266 and 320-334: a candidate is valid when its
\* vector is cached or its fetch succeeds; a fetched vector is cached
IsValidCandidate(cache, ok, track_uri) ==
    ~get_cached_features(cache, track_uri).err \/ track_uri \in ok

valid_candidates(cache, ok, candidate_tracks) ==
    SelectIdx(candidate_tracks,
              {i \in 1..Len(candidate_tracks) :
                  IsValidCandidate(cache, ok, candidate_tracks[i])}, 1)

CandidateVector(cache, track_uri) ==
    IF ~get_cached_features(cache, track_uri).err
    THEN get_cached_features(cache, track_uri).val
    ELSE extract_feature_vector(Catalog[track_uri])

RECURSIVE CacheAfterLoop(_, _, _)
CacheAfterLoop(cache, ok, candidate_tracks) ==
    IF candidate_tracks = <<>> THEN cache
    ELSE LET t == Head(candidate_tracks)
         IN  CacheAfterLoop(
                 IF get_cached_features(cache, t).err /\ t \in ok
                 THEN cache_features(cache, t, extract_feature_vector(Catalog[t]))
                 ELSE cache,
                 ok, Tail(candidate_tracks))

\* lines 279-286 and 364-371: the first n of the descending order, then
\* the threshold
TopRecommendations(order, uris, scores, n, passing) ==
    LET top_indices == PySliceTo(Reverse(order), n)
        kept == SelectIdx(top_indices,
                          {i \in 1..Len(top_indices) : top_indices[i] \in passing}, 1)
    IN  [i \in 1..Len(kept) |-> [uri |-> uris[kept[i]], score |-> scores[kept[i]]]]

----
(* Similarity Scorer *)

\* RecommendationEngine.find_similar_tracks: the set of possible outcomes
\* [err, recs, cache]; err is the PlaylistGenerationError of line 290
find_similar_tracks(seed_track_uri, candidate_tracks, n, cache, ok) ==
    IF candidate_tracks = <<>>
    THEN {[err |-> FALSE, recs |-> <<>>, cache |-> cache]}
    ELSE IF seed_track_uri \notin ok
    THEN {[err |-> TRUE, recs |-> <<>>, cache |-> cache]}
    ELSE LET seed_vector == extract_feature_vector(Catalog[seed_track_uri])
             valid == valid_candidates(cache, ok, candidate_tracks)
             similarities ==
                 [i \in 1..Len(valid) |->
                     cosine_similarity(seed_vector, CandidateVector(cache, valid[i]))]
             cache2 == CacheAfterLoop(cache, ok, candidate_tracks)
         IN  IF valid = <<>>
             THEN {[err |-> FALSE, recs |-> <<>>, cache |-> cache2]}
             ELSE {[err |-> FALSE,
                    recs |-> TopRecommendations(order, valid, similarities, n,
                               {i \in 1..Len(valid) : AboveMinSimilarity(similarities[i])}),
                    cache |-> cache2] : order \in ArgsortOutcomes(similarities)}

----
(* Cluster Scorer *)

\* The pretrained artifacts are not part of the repository.  The scaler is a
\* StandardScaler, transform(x) = (x - mean) / scale, kept here with the
\* reciprocal of the scale; the cluster model is a KMeans, predict(x) = the
\* index of the nearest centre (the first one on a tie).
ScalerMean == [i \in 1..Dim |-> IF i = 12 THEN 1 ELSE 0]
ScalerInvScale == [i \in 1..Dim |-> IF i = 6 THEN 3 ELSE 1]
ClusterCenters ==
    << zeros, [i \in 1..Dim |-> IF i \in {3, 4} THEN 4 ELSE 0] >>

SqDist(a, b) == SumSeq([i \in 1..Dim |-> (a[i] - b[i]) * (a[i] - b[i])])

\* scaler.transform of the vector num / den, multiplied by den so that it
\* stays an integer vector; every vector of one call uses the same den
scaler_transform(num, den) ==
    SubSeq([i \in 1..Dim |-> (num[i] - den * ScalerMean[i]) * ScalerInvScale[i]],
           1, Dim)

\* kmeans_model.predict of a vector that is held multiplied by den
kmeans_predict(y, den) ==
    LET dist(k) == SqDist(y, [i \in 1..Dim |-> den * ClusterCenters[k][i]])
    IN  CHOOSE k \in 1..Len(ClusterCenters) :
            /\ \A j \in 1..Len(ClusterCenters) : dist(k) <= dist(j)
            /\ \A j \in 1..(k - 1) : dist(j) > dist(k)

\* the largest element of a non-empty sequence of naturals
MaxOf(s) == CHOOSE m \in Range(s) : \A x \in Range(s) : x <= m

\* the largest distance taken without the guard
max_distance_mut(distances) == MaxOf(distances)

\* line 360: the largest distance of the batch, 1 when it is 0
max_distance(distances) == IF MaxOf(distances) > 0 THEN MaxOf(distances) ELSE 1

\* every candidate of the batch given confidence 1.0
confidence_of_mut(distance, max_d) == [kind |-> "conf", d2 |-> 0, m2 |-> max_d]

\* line 361: 1 - distance / max_distance, held as the pair of the squared
\* distance and the squared largest distance
confidence_of(distance, max_d) == [kind |-> "conf", d2 |-> distance, m2 |-> max_d]

\* the scorer going on with the cluster model alone
ModelsAvailable_mut(kmeans_loaded, scaler_loaded) == kmeans_loaded

\* line 308: both artifacts were loaded
ModelsAvailable(kmeans_loaded, scaler_loaded) == kmeans_loaded /\ scaler_loaded

\* every candidate taken as being in the user's cluster
InSameCluster_mut(candidate_cluster, user_cluster) == TRUE

\* line 348: candidate_clusters == user_cluster
InSameCluster(candidate_cluster, user_cluster) == candidate_cluster = user_cluster

\* the tracks the loop of lines 320-334 asks the catalog for: those not
\* cached, once when the fetch succeeds (the vector is cached then) and at
\* every occurrence when it fails
LoopFetches(cache, ok, candidate_tracks) ==
    SelectIdx(candidate_tracks,
              {i \in 1..Len(candidate_tracks) :
                  /\ get_cached_features(cache, candidate_tracks[i]).err
                  /\ \/ candidate_tracks[i] \notin ok
                     \/ \A j \in 1..(i - 1) :
                           candidate_tracks[j] # candidate_tracks[i]}, 1)

\* RecommendationEngine.cluster_based_recommendations: the set of possible
\* outcomes [err, recs, cache, calls]; calls are the catalog fetches made
cluster_based_recommendations(pref, candidate_tracks, n, cache, ok, kmeans_loaded, scaler_loaded) ==
    IF ~ModelsAvailable(kmeans_loaded, scaler_loaded)
    THEN {[err |-> FALSE, recs |-> <<>>, cache |-> cache, calls |-> <<>>]}
    ELSE IF candidate_tracks = <<>>
    THEN {[err |-> FALSE, recs |-> <<>>, cache |-> cache, calls |-> <<>>]}
    ELSE LET valid == valid_candidates(cache, ok, candidate_tracks)
             cache2 == CacheAfterLoop(cache, ok, candidate_tracks)
             calls == LoopFetches(cache, ok, candidate_tracks)
             candidate_matrix ==
                 [i \in 1..Len(valid) |->
                     scaler_transform(
                         [c \in 1..Dim |-> pref.den * CandidateVector(cache, valid[i])[c]],
                         pref.den)]
             user_vector_scaled == scaler_transform(pref.num, pref.den)
             user_cluster == kmeans_predict(user_vector_scaled, pref.den)
             same_cluster_indices ==
                 SelectIdx([i \in 1..Len(valid) |-> i],
                           {i \in 1..Len(valid) :
                               InSameCluster(
                                   kmeans_predict(candidate_matrix[i], pref.den),
                                   user_cluster)}, 1)
             cluster_uris ==
                 [i \in 1..Len(same_cluster_indices) |-> valid[same_cluster_indices[i]]]
             distances ==
                 [i \in 1..Len(same_cluster_indices) |->
                     SqDist(user_vector_scaled,
                            candidate_matrix[same_cluster_indices[i]])]
             confidence ==
                 [i \in 1..Len(distances) |->
                     confidence_of(distances[i], max_distance(distances))]
         IN  IF valid = <<>> \/ same_cluster_indices = <<>>
             THEN {[err |-> FALSE, recs |-> <<>>, cache |-> cache2, calls |-> calls]}
             ELSE UNION {
                    {[err |-> FALSE,
                      recs |-> TopRecommendations(order, cluster_uris, scores, n,
                                   {i \in 1..Len(scores) : AboveMinConfidence(scores[i])}),
                      cache |-> cache2,
                      calls |-> calls] : order \in ArgsortOutcomes(scores)} :
                    scores \in {confidence}}

----
(* Similarity mode and Hybrid Blender *)

\* _similarity_based_recommendations reads the name `user`, which is neither
\* a parameter nor a local nor a module global: the read raises NameError
UserNameBound == FALSE

\* RecommendationEngine._similarity_based_recommendations; u is the user the
\* body means to read.  An exception leaves as err (no handler in the body).
similarity_based_recommendations(u, pref, candidate_tracks, n, cache, ok) ==
    IF ~UserNameBound
    THEN {[err |-> TRUE, recs |-> <<>>, cache |-> cache]}
    ELSE IF u.recently_searched = <<>>
    THEN {[err |-> FALSE, recs |-> <<>>, cache |-> cache]}
    ELSE find_similar_tracks(u.recently_searched[Len(u.recently_searched)],
                             candidate_tracks, n, cache, ok)

RECURSIVE ISqrtFrom(_, _)
ISqrtFrom(x, r) == IF (r + 1) * (r + 1) > x THEN r ELSE ISqrtFrom(x, r + 1)

\* a score in thousandths, rounded down; the blend adds scores of two kinds
Milli(x) ==
    IF x.kind = "cos"
    THEN (IF x.dot <= 0 THEN 0 ELSE ISqrtFrom((1000000 * x.dot * x.dot) \div x.nn, 0))
    ELSE 1000 - ISqrtFrom((1000000 * x.d2) \div x.m2, 0)

\* the dict of lines 483-491, as a sequence of [uri, score] in insertion
\* order with score in millionths
RECURSIVE AddScores(_, _, _)
AddScores(combined, recs, weight) ==
    IF recs = <<>> THEN combined
    ELSE LET r == Head(recs)
             add == weight * Milli(r.score)
             at == {i \in 1..Len(combined) : combined[i].uri = r.uri}
             next == IF at = {}
                     THEN Append(combined,
                                 [uri |-> r.uri,
                                  score |-> [kind |-> "blend", micro |-> add]])
                     ELSE [i \in 1..Len(combined) |->
                              IF i \in at
                              THEN [uri |-> r.uri,
                                    score |-> [kind |-> "blend",
                                               micro |-> combined[i].score.micro + add]]
                              ELSE combined[i]]
         IN  AddScores(next, Tail(recs), weight)

\* sorted(items, key=score, reverse=True): stable, descending
RECURSIVE SortedDesc(_)
SortedDesc(items) ==
    IF items = <<>> THEN <<>>
    ELSE LET best == CHOOSE i \in 1..Len(items) :
                         /\ \A j \in 1..Len(items) :
                               items[j].score.micro <= items[i].score.micro
                         /\ \A j \in 1..(i - 1) :
                               items[j].score.micro < items[i].score.micro
         IN  <<items[best]>> \o
             SortedDesc(SelectIdx(items, (1..Len(items)) \ {best}, 1))

SimilarityWeight == 600
ClusterWeight == 400

\* RecommendationEngine._hybrid_recommendations
hybrid_recommendations(u, pref, candidate_tracks, n, cache, ok, kmeans_loaded, scaler_loaded) ==
    UNION {
        IF sim.err THEN {sim}
        ELSE {[err |-> clu.err,
               recs |-> IF clu.err THEN <<>>
                        ELSE PySliceTo(
                                 SortedDesc(AddScores(
                                     AddScores(<<>>, sim.recs, SimilarityWeight),
                                     clu.recs, ClusterWeight)), n),
               cache |-> clu.cache] :
                 clu \in cluster_based_recommendations(
                             pref, candidate_tracks, n * 2, sim.cache, ok,
                             kmeans_loaded, scaler_loaded)} :
        sim \in similarity_based_recommendations(
                    u, pref, candidate_tracks, n * 2, cache, ok) }

----
(* Recommendation Orchestrator: generate_recommendations as a state machine *)

VARIABLES
    spotify_client,          \* the client class the engine was built with
    kmeans_model,            \* TRUE when the cluster model was loaded
    scaler,                  \* TRUE when the scaler was loaded
    feature_cache,           \* RecommendationEngine._feature_cache
    pc,                      \* phase of the current call
    trace,                   \* the phases the current call went through
    user,                    \* arguments of the current call
    candidate_tracks,
    n_recommendations,
    algorithm,
    user_preference_vector,  \* locals of the current call
    filtered_candidates,
    recommendations,
    timed_phases,            \* the phases done when processing_time was taken
    recommended_tracks,
    confidence_scores,
    result,                  \* the RecommendationResult returned, if any
    failure,                 \* what raised the PlaylistGenerationError, if any
    direct,                  \* a direct call of one function and its outcome
    app,                     \* the web application: the stored user row, the
                             \* browser sessions and the calls they made
    cache_log,               \* the writes and clears of the feature cache so far
    inflight,                \* generate_recommendations calls running side by side
    core_client,             \* the caches of the core SpotifyClient and its
                             \* get_track calls
    db,                      \* the users table and the transactions open on it
    rate_limiter             \* RateLimiter._requests and the clock

vars == <<spotify_client, kmeans_model, scaler, feature_cache, pc, trace, user,
          candidate_tracks, n_recommendations, algorithm, user_preference_vector,
          filtered_candidates, recommendations, timed_phases, recommended_tracks,
          confidence_scores, result, failure, direct, app, cache_log, inflight,
          core_client, db, rate_limiter>>

engine == <<spotify_client, kmeans_model, scaler>>

\* the state outside the recommendation engine and the page calling it
services == <<cache_log, inflight, core_client, db, rate_limiter>>

\* the locals of the orchestrated call
locals == <<user_preference_vector, filtered_candidates, recommendations,
            timed_phases, recommended_tracks, confidence_scores, result, failure>>
arguments == <<user, candidate_tracks, n_recommendations, algorithm>>

\* bounds on the inputs of a call
MaxListLen == 1
MaxUserEntries == 2
MaxCands == 3
MaxN == 2

\* the tracks the orchestrated calls are made with
UserTracks == {"t1", "t6"}
CallTracks == {"t1", "t4", "t6"}

Algorithms == {"similarity", "clustering", "hybrid"}

\* n_recommendations is an unchecked int: negative and zero included
NValues == {-1} \cup (0..MaxN)

CallUsers ==
    {u \in Users(UserTracks, MaxListLen) :
        Len(u.loved_it) + Len(u.like_it) + Len(u.okay) + Len(u.hate_it)
            + Len(u.recently_searched) <= MaxUserEntries}

NoUser == [loved_it |-> <<>>, like_it |-> <<>>, okay |-> <<>>, hate_it |-> <<>>,
           recently_searched |-> <<>>]

NoResult == [returned |-> FALSE, recommended_tracks |-> <<>>,
             confidence_scores |-> <<>>, algorithm_used |-> "",
             timed_phases |-> <<>>]

NoDirect == [fn |-> "none"]

\* browser sessions of the one registered user
MaxSessions == 2
Sessions == 1..MaxSessions

\* the count a user row is created with
InitialCount == 10

\* st.session_state without a user
LoggedOut == [logged_in |-> FALSE, count |-> 0, recently_searched |-> <<>>]

\* the application before anyone logged in: the row create_user wrote
AppStart ==
    [stored_count |-> InitialCount, stored_searched |-> <<>>,
     session |-> [s \in Sessions |-> LoggedOut],
     calls |-> 0, successes |-> 0, last |-> [fn |-> "none"]]

\* the generate_recommendations calls that run side by side on one engine,
\* and the tracks they are made with
MaxConcCalls == 2
ConcCalls == 1..MaxConcCalls
ConcTracks == {"t1", "t6"}

\* a call that was not made yet, with its arguments and locals unset
NotRunning ==
    [at |-> "idle", user |-> NoUser, candidate_tracks |-> <<>>,
     algorithm |-> "", user_preference_vector |-> ZeroPref,
     filtered_candidates |-> <<>>, valid_candidates |-> <<>>,
     candidate_vectors |-> <<>>, next |-> 1, err |-> FALSE,
     recommended_tracks |-> <<>>,
     confidence_scores |-> <<>>]

\* no generate_recommendations call running; available are the tracks the
\* catalog has features for, resolvable those it has metadata for, writes
\* counts the cache writes made per track
NoCalls ==
    [available |-> {}, resolvable |-> {}, writes |-> [t \in ConcTracks |-> 0],
     call |-> [c \in ConcCalls |-> NotRunning]]

\* the coroutines that call the client side by side
MaxClientTasks == 2
ClientTasks == 1..MaxClientTasks

\* the track ids asked for, and the versions of a track's data the catalog
\* may answer with (its popularity changes over time)
TrackIds == {"id1", "id2"}
TrackVersions == {1, 2}

\* a task that is not inside get_track
NotFetching == [at |-> "idle", track_id |-> "", earlier |-> {}]

\* SpotifyClient.__init__ (lines 141-146): both caches empty.  api_calls
\* counts the catalog calls made; returned holds, per id, the tracks that
\* get_track calls returned since the last clear_cache; last is the call
\* that returned last
ClientStart ==
    [track_cache |-> [i \in {} |-> 0], features_cache |-> {},
     task |-> [c \in ClientTasks |-> NotFetching],
     calls |-> 0, api_calls |-> 0,
     returned |-> [i \in TrackIds |-> {}],
     last |-> [fn |-> "none"]]

\* the processes calling decrement_user_count, each on its own connection
MaxCallers == 2
DbCallers == 1..MaxCallers

\* a caller that is not inside decrement_user_count
NotCalling == [at |-> "idle", current_count |-> 0]

\* the users table before the user is registered; committed is the count
\* column of the user's row, returned_true and returned_false count the
\* calls that returned, last is the call that returned last
DbStart ==
    [registered |-> FALSE, committed |-> 0, initial_count |-> 0,
     caller |-> [p \in DbCallers |-> NotCalling],
     calls |-> 0, returned_true |-> 0, returned_false |-> 0,
     last |-> [fn |-> "none"]]

\* RateLimiter.__init__: requests is an empty dict.  The clock starts at
\* 0; allowed keeps, for every key, the times of the calls that returned
\* True; last is the call made last
LimiterKeys == {"alice", "bob"}

LimiterStart ==
    [requests |-> [k \in {} |-> <<>>], now |-> 0, calls |-> 0,
     allowed |-> [k \in LimiterKeys |-> <<>>], last |-> [fn |-> "none"]]

IdleLocals ==
    /\ user_preference_vector = ZeroPref
    /\ filtered_candidates = <<>>
    /\ recommendations = <<>>
    /\ timed_phases = <<>>
    /\ recommended_tracks = <<>>
    /\ confidence_scores = <<>>
    /\ result = NoResult
    /\ failure = "none"

ResetLocals ==
    /\ user_preference_vector' = ZeroPref
    /\ filtered_candidates' = <<>>
    /\ recommendations' = <<>>
    /\ timed_phases' = <<>>
    /\ recommended_tracks' = <<>>
    /\ confidence_scores' = <<>>
    /\ result' = NoResult
    /\ failure' = "none"

\* the engine right after RecommendationEngine.__init__, and what surrounds it
EngineInit ==
    /\ spotify_client \in Clients
    /\ kmeans_model \in BOOLEAN
    /\ scaler \in BOOLEAN
    /\ feature_cache = EmptyCache
    /\ pc = "Idle"
    /\ trace = <<>>
    /\ user = NoUser
    /\ candidate_tracks = <<>>
    /\ n_recommendations = 0
    /\ algorithm = "hybrid"
    /\ IdleLocals
    /\ direct = NoDirect
    /\ app = AppStart
    /\ cache_log = <<>>
    /\ core_client = ClientStart
    /\ db = DbStart
    /\ rate_limiter = LimiterStart

Init == EngineInit /\ inflight = NoCalls

\* line 395: a caller enters generate_recommendations; each behaviour
\* follows one call on a freshly built engine to its end
Call ==
    /\ pc = "Idle"
    /\ \E u \in CallUsers, c \in SeqsUpTo(CallTracks, MaxCands),
          n \in NValues, a \in Algorithms :
          /\ user' = u
          /\ candidate_tracks' = c
          /\ n_recommendations' = n
          /\ algorithm' = a
    /\ pc' = "Started"
    /\ trace' = <<"Started">>
    /\ ResetLocals
    /\ UNCHANGED <<services, app, engine, feature_cache, direct>>

\* a handler that logs the exception and returns normally
Raise_mut(cause) ==
    /\ pc' = "Completed"
    /\ trace' = Append(trace, "Completed")
    /\ failure' = cause

\* every exception inside the try block of generate_recommendations ends
\* in the handler of lines 448-450
Raise(cause) ==
    /\ pc' = "Failed"
    /\ trace' = Append(trace, "Failed")
    /\ failure' = cause

\* line 399
BuildPreference ==
    /\ pc = "Started"
    /\ \E ok \in SUBSET Range(positive_tracks(user)) :
          LET out == get_user_preference_vector(user, spotify_client, ok)
          IN  IF out.err
              THEN /\ Raise("preference")
                   /\ UNCHANGED user_preference_vector
              ELSE /\ pc' = "PreferenceBuilt"
                   /\ trace' = Append(trace, "PreferenceBuilt")
                   /\ user_preference_vector' = out.val
                   /\ UNCHANGED failure
    /\ UNCHANGED <<services, app, engine, feature_cache, arguments, filtered_candidates,
                   recommendations, timed_phases, recommended_tracks,
                   confidence_scores, result, direct>>

\* the hated tracks left out of the known set
known_tracks_mut(u) ==
    Range(u.loved_it) \cup Range(u.like_it) \cup Range(u.okay)
        \cup Range(u.recently_searched)

\* lines 402-404
known_tracks(u) ==
    Range(u.loved_it) \cup Range(u.like_it) \cup Range(u.okay)
        \cup Range(u.hate_it) \cup Range(u.recently_searched)

\* line 405
filter_candidates(u, candidates) ==
    SelectIdx(candidates,
              {i \in 1..Len(candidates) : candidates[i] \notin known_tracks(u)}, 1)

FilterCandidates ==
    /\ pc = "PreferenceBuilt"
    /\ filtered_candidates' = filter_candidates(user, candidate_tracks)
    /\ pc' = "CandidatesFiltered"
    /\ trace' = Append(trace, "CandidatesFiltered")
    /\ UNCHANGED <<services, app, engine, feature_cache, arguments, user_preference_vector,
                   recommendations, timed_phases, recommended_tracks,
                   confidence_scores, result, failure, direct>>

\* lines 407-408
RaiseNoNewTracks ==
    /\ pc = "CandidatesFiltered"
    /\ filtered_candidates = <<>>
    /\ Raise("no_new_tracks")
    /\ UNCHANGED <<services, app, engine, feature_cache, arguments, user_preference_vector,
                   filtered_candidates, recommendations, timed_phases,
                   recommended_tracks, confidence_scores, result, direct>>

\* the outcomes of the dispatch of lines 411-422
Dispatch(ok) ==
    IF algorithm = "similarity"
    THEN similarity_based_recommendations(
             user, user_preference_vector, filtered_candidates,
             n_recommendations, feature_cache, ok)
    ELSE IF algorithm = "clustering"
    THEN cluster_based_recommendations(
             user_preference_vector, filtered_candidates, n_recommendations,
             feature_cache, ok, kmeans_model, scaler)
    ELSE hybrid_recommendations(
             user, user_preference_vector, filtered_candidates,
             n_recommendations, feature_cache, ok, kmeans_model, scaler)

\* lines 410-425: the chosen scorer runs, then processing_time is taken
ScoreWith(alg) ==
    /\ pc = "CandidatesFiltered"
    /\ filtered_candidates # <<>>
    /\ algorithm = alg
    /\ \E ok \in SUBSET (Range(filtered_candidates) \cup Range(user.recently_searched)) :
       \E out \in Dispatch(ok) :
          /\ feature_cache' = out.cache
          /\ IF out.err
             THEN /\ Raise("scoring")
                  /\ UNCHANGED <<recommendations, timed_phases>>
             ELSE /\ pc' = "Scored"
                  /\ trace' = Append(trace, "Scored")
                  /\ recommendations' = out.recs
                  /\ timed_phases' = trace'
                  /\ UNCHANGED failure
    /\ UNCHANGED <<services, app, engine, arguments, user_preference_vector, filtered_candidates,
                   recommended_tracks, confidence_scores, result, direct>>

ScoreSimilarity == ScoreWith("similarity")
ScoreClustering == ScoreWith("clustering")
ScoreHybrid == ScoreWith("hybrid")

\* the score appended before the lookup that can raise
resolve_metadata_mut(recs, client, resolved) ==
    LET kept == SelectIdx(recs, {i \in 1..Len(recs) : HasGetTrackInfo(client)
                                                   /\ recs[i].uri \in resolved}, 1)
    IN  [tracks |-> [i \in 1..Len(kept) |-> TrackOf(kept[i].uri)],
         scores |-> [i \in 1..Len(recs) |-> recs[i].score]]

\* lines 427-436: resolved is the set of tracks whose get_track_info
\* succeeds; a track and its score are appended together, after the lookup
resolve_metadata(recs, client, resolved) ==
    LET kept == SelectIdx(recs, {i \in 1..Len(recs) : HasGetTrackInfo(client)
                                                   /\ recs[i].uri \in resolved}, 1)
    IN  [tracks |-> [i \in 1..Len(kept) |-> TrackOf(kept[i].uri)],
         scores |-> [i \in 1..Len(kept) |-> kept[i].score]]

ResolveMetadata ==
    /\ pc = "Scored"
    /\ \E resolved \in SUBSET {recommendations[i].uri : i \in 1..Len(recommendations)} :
          LET out == resolve_metadata(recommendations, spotify_client, resolved)
          IN  /\ recommended_tracks' = out.tracks
              /\ confidence_scores' = out.scores
    /\ pc' = "MetadataResolved"
    /\ trace' = Append(trace, "MetadataResolved")
    /\ UNCHANGED <<services, app, engine, feature_cache, arguments, user_preference_vector,
                   filtered_candidates, recommendations, timed_phases, result,
                   failure, direct>>

\* RecommendationResult.__post_init__ (data_models.py lines 84-87)
ResultIsValid(tracks, scores) == Len(tracks) = Len(scores)

\* lines 438-446
Complete ==
    /\ pc = "MetadataResolved"
    /\ IF ResultIsValid(recommended_tracks, confidence_scores)
       THEN /\ result' = [returned |-> TRUE,
                          recommended_tracks |-> recommended_tracks,
                          confidence_scores |-> confidence_scores,
                          algorithm_used |-> algorithm,
                          timed_phases |-> timed_phases]
            /\ pc' = "Completed"
            /\ trace' = Append(trace, "Completed")
            /\ UNCHANGED failure
       ELSE /\ Raise("result")
            /\ UNCHANGED result
    /\ UNCHANGED <<services, app, engine, feature_cache, arguments, user_preference_vector,
                   filtered_candidates, recommendations, timed_phases,
                   recommended_tracks, confidence_scores, direct>>

Next ==
    \/ Call
    \/ BuildPreference
    \/ FilterCandidates
    \/ RaiseNoNewTracks
    \/ ScoreSimilarity
    \/ ScoreClustering
    \/ ScoreHybrid
    \/ ResolveMetadata
    \/ Complete

Spec == Init /\ [][Next]_vars

----
(* Direct calls of the Preference Aggregator *)

MaxPrefLen == 1
PrefTracks == {"t1", "t2"}

\* one call of get_user_preference_vector, with its arguments and outcome
DirectPreference ==
    /\ direct.fn = "none"
    /\ \E u \in Users(PrefTracks, MaxPrefLen), ok \in SUBSET PrefTracks :
          direct' = [fn |-> "get_user_preference_vector", user |-> u, ok |-> ok,
                     out |-> get_user_preference_vector(u, spotify_client, ok)]
    /\ UNCHANGED <<services, app, engine, feature_cache, pc, trace, arguments,
                   user_preference_vector, filtered_candidates, recommendations,
                   timed_phases, recommended_tracks, confidence_scores, result,
                   failure>>

NextPref == DirectPreference

\* the aggregator reads the client only, so the models are taken as loaded
InitPref == Init /\ kmeans_model /\ scaler

SpecPref == InitPref /\ [][NextPref]_vars

----
(* Direct calls of the Similarity Scorer *)

MaxSimCands == 3
MaxSimN == 3
SimSeed == "t1"
SimTracks == {"t1", "t2", "t3", "t4", "t5"}

\* an earlier find_similar_tracks call for one track, whose fetch succeeded:
\* it leaves the track's vector in the feature cache
WarmCache ==
    /\ direct.fn = "none"
    /\ \E t \in SimTracks \ DOMAIN feature_cache :
       \E out \in find_similar_tracks(SimSeed, <<t>>, 1, feature_cache, Tracks) :
          feature_cache' = out.cache
    /\ UNCHANGED <<services, app, engine, pc, trace, arguments, user_preference_vector,
                   filtered_candidates, recommendations, timed_phases,
                   recommended_tracks, confidence_scores, result, failure, direct>>

\* one call of find_similar_tracks, with its arguments and outcome
DirectFindSimilar ==
    /\ direct.fn = "none"
    /\ \E c \in SeqsUpTo(SimTracks, MaxSimCands), n \in 0..MaxSimN :
       \E ok \in SUBSET (Range(c) \cup {SimSeed}) :
       \E out \in find_similar_tracks(SimSeed, c, n, feature_cache, ok) :
          /\ direct' = [fn |-> "find_similar_tracks", seed |-> SimSeed,
                        candidates |-> c, n |-> n, ok |-> ok,
                        cache_before |-> feature_cache,
                        err |-> out.err, recs |-> out.recs]
          /\ feature_cache' = out.cache
    /\ UNCHANGED <<services, app, engine, pc, trace, arguments, user_preference_vector,
                   filtered_candidates, recommendations, timed_phases,
                   recommended_tracks, confidence_scores, result, failure>>

NextSim == WarmCache \/ DirectFindSimilar

\* find_similar_tracks uses get_track_features only, which both clients
\* have, and no model: the engine is taken with the core client and both
\* models loaded
InitSim == Init /\ spotify_client = "core" /\ kmeans_model /\ scaler

SpecSim == InitSim /\ [][NextSim]_vars

----
(* Properties of generate_recommendations, checked under Spec *)

Terminated == pc \in {"Completed", "Failed"}

\* the union of the user's five lists
KnownSet ==
    Range(user.loved_it) \cup Range(user.like_it) \cup Range(user.okay)
        \cup Range(user.hate_it) \cup Range(user.recently_searched)

\* C1: the two parallel lists of a call have the same length at every
\* moment, and so do the two lists of every RecommendationResult returned,
\* whatever the metadata lookups did.
C1_EqualLength ==
    /\ Len(recommended_tracks) = Len(confidence_scores)
    /\ result.returned =>
          Len(result.recommended_tracks) = Len(result.confidence_scores)

\* a result was returned after some lookups failed and some succeeded
C1_Witness ==
    /\ result.returned
    /\ Len(result.recommended_tracks) >= 1
    /\ Len(result.recommended_tracks) < Len(recommendations)

\* C2: no scored or returned track is in one of the user's five lists, and
\* every scored or returned track is one of the caller's candidates.
C2_OnlyNewCandidates ==
    /\ \A i \in 1..Len(recommendations) :
          /\ recommendations[i].uri \notin KnownSet
          /\ recommendations[i].uri \in Range(candidate_tracks)
    /\ result.returned =>
          \A i \in 1..Len(result.recommended_tracks) :
             /\ result.recommended_tracks[i].track_uri \notin KnownSet
             /\ result.recommended_tracks[i].track_uri \in Range(candidate_tracks)

\* a non-empty result was returned for a candidate list that held a known
\* track
C2_Witness ==
    /\ result.returned
    /\ result.recommended_tracks # <<>>
    /\ Range(candidate_tracks) \cap KnownSet # {}

\* C3: a call whose candidates are all known to the user (or that has no
\* candidate) ends in failure with the "no new tracks" cause and returns
\* no result.
C3_NoNewTracks ==
    (Terminated /\ Range(candidate_tracks) \subseteq KnownSet) =>
        (pc = "Failed" /\ failure = "no_new_tracks" /\ ~result.returned)

\* C4: the phases of a call come in the fixed order, possibly cut short by
\* Failed; a call is in the terminal phase Completed exactly when it has
\* returned a result and in Failed exactly when it has raised; a call that
\* has not ended can take its next step and nothing follows a terminal
\* phase.
C4_PhaseOrder ==
    LET order == <<"Started", "PreferenceBuilt", "CandidatesFiltered", "Scored",
                   "MetadataResolved", "Completed">>
    IN  pc # "Idle" =>
          /\ pc = trace[Len(trace)]
          /\ \E k \in 1..6 :
                \/ trace = SubSeq(order, 1, k)
                \/ k < 6 /\ trace = Append(SubSeq(order, 1, k), "Failed")
          /\ result.returned <=> pc = "Completed"
          /\ failure # "none" <=> pc = "Failed"
          /\ IF Terminated THEN ~ENABLED Next ELSE ENABLED Next

\* a call went through all six phases
C4_Witness ==
    /\ pc = "Completed"
    /\ trace = <<"Started", "PreferenceBuilt", "CandidatesFiltered", "Scored",
                 "MetadataResolved", "Completed">>

\* the failures the claim names are reached: from CandidatesFiltered with
\* nothing left, from an error while building the preference, from an error
\* while scoring
C4_FailedNothingLeft ==
    trace = <<"Started", "PreferenceBuilt", "CandidatesFiltered", "Failed">>
        /\ failure = "no_new_tracks"
C4_FailedPreference == trace = <<"Started", "Failed">> /\ failure = "preference"
C4_FailedScoring ==
    trace = <<"Started", "PreferenceBuilt", "CandidatesFiltered", "Failed">>
        /\ failure = "scoring"

\* C5: in similarity mode, with an empty recently_searched list and a
\* candidate the user does not know, the call completes with zero
\* recommendations.
C5_SimilarityEmptySearch ==
    (/\ Terminated
     /\ algorithm = "similarity"
     /\ user.recently_searched = <<>>
     /\ filtered_candidates # <<>>)
        => (pc = "Completed" /\ result.returned /\ result.recommended_tracks = <<>>)

----
(* Properties of get_user_preference_vector, checked under SpecPref *)

PrefCalled == direct.fn = "get_user_preference_vector"

\* the positive tracks of the call made
CalledPositive ==
    Range(direct.user.loved_it) \cup Range(direct.user.like_it)
        \cup Range(direct.user.okay) \cup Range(direct.user.recently_searched)

\* C6: with loved_it, like_it, okay and recently_searched all empty the
\* vector returned has twelve components, all zero; nothing is raised and
\* the catalog is not asked for anything, whatever hate_it holds.
C6_ZeroVector ==
    (PrefCalled /\ CalledPositive = {}) =>
        /\ ~direct.out.err
        /\ Len(direct.out.val.num) = 12
        /\ \A c \in 1..12 : direct.out.val.num[c] = 0
        /\ direct.out.calls = <<>>

\* such a call was made for a user who hates some track
C6_Witness ==
    /\ PrefCalled
    /\ CalledPositive = {}
    /\ direct.user.hate_it # <<>>

\* the weight the claims give a track: that of the first list holding it
ClaimedWeight(u, t) ==
    IF t \in Range(u.loved_it) THEN 10
    ELSE IF t \in Range(u.like_it) THEN 7
    ELSE IF t \in Range(u.okay) THEN 4
    ELSE 3

\* the sum of the function f over the finite set S
SumOver(S, f) ==
    LET q == CHOOSE x \in [1..Cardinality(S) -> S] : Range(x) = S
    IN  SumSeq([i \in 1..Cardinality(S) |-> f[q[i]]])

\* out is the weighted mean of the vectors of the tracks in T
IsClaimedMean(out, u, T) ==
    /\ ~out.err
    /\ \A c \in 1..Dim :
          out.val.num[c] * SumOver(T, [t \in T |-> ClaimedWeight(u, t)])
              = out.val.den
                  * SumOver(T, [t \in T |-> ClaimedWeight(u, t)
                                   * extract_feature_vector(Catalog[t])[c]])

\* C7: for a user with a positive track, all fetched, the vector returned
\* is the weighted mean of the tracks' vectors, each track weighted by its
\* highest-priority list.
C7_WeightedMean ==
    (PrefCalled /\ CalledPositive # {} /\ CalledPositive \subseteq direct.ok) =>
        IsClaimedMean(direct.out, direct.user, CalledPositive)

\* C8: with the core client, whose batch fetch drops the failed items, when
\* some fetches fail and some succeed nothing is raised and the vector
\* returned is the weighted mean over the tracks that were fetched.
C8_PartialFailure ==
    (/\ PrefCalled
     /\ spotify_client = "core"
     /\ CalledPositive \cap direct.ok # {}
     /\ CalledPositive \ direct.ok # {}) =>
        IsClaimedMean(direct.out, direct.user, CalledPositive \cap direct.ok)

----
(* Properties of find_similar_tracks, checked under SpecSim *)

SimCalled == direct.fn = "find_similar_tracks"

\* the similarity of a track to the seed of the call made
SimilarityToSeed(t) ==
    cosine_similarity(extract_feature_vector(Catalog[direct.seed]),
                      extract_feature_vector(Catalog[t]))

ValidPositions ==
    {i \in 1..Len(direct.candidates) :
        direct.candidates[i] \in DOMAIN direct.cache_before
            \/ direct.candidates[i] \in direct.ok}

\* positions of the valid candidates that pass the 0.1 threshold
PassingPositions ==
    {i \in ValidPositions :
        LET x == SimilarityToSeed(direct.candidates[i])
        IN  x.dot > 0 /\ 100 * x.dot * x.dot > x.nn}

\* x <= y for two similarities with positive dot
SimLeq(x, y) == x.dot * x.dot * y.nn <= y.dot * y.dot * x.nn

\* the entries returned are the n best of the passing candidates, best first
IsTopOfPassing ==
    /\ Len(direct.recs) =
          (IF direct.n < Cardinality(PassingPositions)
           THEN direct.n ELSE Cardinality(PassingPositions))
    /\ \A i \in 1..(Len(direct.recs) - 1) :
          SimLeq(direct.recs[i + 1].score, direct.recs[i].score)
    /\ \A t \in Range(direct.candidates) :
          LET returned == Cardinality({i \in 1..Len(direct.recs) :
                                          direct.recs[i].uri = t})
              passing == Cardinality({i \in PassingPositions :
                                         direct.candidates[i] = t})
          IN  /\ returned <= passing
              /\ returned < passing =>
                    \A i \in 1..Len(direct.recs) :
                        SimLeq(SimilarityToSeed(t), direct.recs[i].score)
    /\ \A i \in 1..Len(direct.recs) :
          direct.recs[i].uri \in Range(direct.candidates)

\* no candidate, or no candidate cached and every candidate's fetch failing
NothingToScore ==
    \A i \in 1..Len(direct.candidates) :
        /\ direct.candidates[i] \notin DOMAIN direct.cache_before
        /\ direct.candidates[i] \notin direct.ok

PositionOf(t) ==
    CHOOSE i \in 1..Len(direct.candidates) :
        /\ direct.candidates[i] = t
        /\ \A j \in 1..(i - 1) : direct.candidates[j] # t

\* two similarities are equal
SimSame(x, y) == SimLeq(x, y) /\ SimLeq(y, x)

\* C11: for a candidate list without repeats, entries with equal scores
\* come in candidate-list order, and a passing candidate left out at the
\* cut with the score of a returned entry comes later in the candidate list
\* than that entry.
C11_StableTies ==
    (/\ SimCalled
     /\ ~direct.err
     /\ Cardinality(Range(direct.candidates)) = Len(direct.candidates)) =>
        /\ \A i, j \in 1..Len(direct.recs) :
              (i < j /\ SimSame(direct.recs[i].score, direct.recs[j].score)) =>
                  PositionOf(direct.recs[i].uri) < PositionOf(direct.recs[j].uri)
        /\ \A i \in 1..Len(direct.recs) :
           \A p \in PassingPositions :
              (/\ \A k \in 1..Len(direct.recs) :
                     direct.recs[k].uri # direct.candidates[p]
               /\ SimSame(direct.recs[i].score,
                          SimilarityToSeed(direct.candidates[p]))) =>
                  PositionOf(direct.recs[i].uri) < p

----
(* Direct calls of the Cluster Scorer *)

MaxCluCands == 3
MaxCluN == 3
CluTracks == {"t5", "t6", "t7", "t8"}

\* the preference vectors the scorer is called with: the zero vector, the
\* vector of t6 and the vector of t5
CluPrefs ==
    {ZeroPref,
     [num |-> extract_feature_vector(Catalog["t6"]), den |-> 1],
     [num |-> extract_feature_vector(Catalog["t5"]), den |-> 1]}

\* one call of cluster_based_recommendations, with its arguments and outcome
DirectCluster ==
    /\ direct.fn = "none"
    /\ \E p \in CluPrefs, c \in SeqsUpTo(CluTracks, MaxCluCands), n \in 0..MaxCluN :
       \E ok \in SUBSET Range(c) :
       \E out \in cluster_based_recommendations(
                      p, c, n, feature_cache, ok, kmeans_model, scaler) :
          /\ direct' = [fn |-> "cluster_based_recommendations", pref |-> p,
                        candidates |-> c, n |-> n, ok |-> ok,
                        cache_before |-> feature_cache,
                        err |-> out.err, recs |-> out.recs, calls |-> out.calls]
          /\ feature_cache' = out.cache
    /\ UNCHANGED <<services, app, engine, pc, trace, arguments, user_preference_vector,
                   filtered_candidates, recommendations, timed_phases,
                   recommended_tracks, confidence_scores, result, failure>>

NextClu == DirectCluster

\* the scorer with both artifacts loaded; it uses get_track_features only,
\* which both clients have
InitClu == Init /\ spotify_client = "core" /\ kmeans_model /\ scaler

SpecClu == InitClu /\ [][NextClu]_vars

----
(* Properties of cluster_based_recommendations, checked under SpecClu *)

CluCalled == direct.fn = "cluster_based_recommendations"

\* the cluster predicted for the vector num / den of the call made
ClusterOf(num) ==
    kmeans_predict(scaler_transform(num, direct.pref.den), direct.pref.den)

\* the cluster predicted for a track of the call made
TrackCluster(t) ==
    ClusterOf([c \in 1..Dim |-> direct.pref.den * extract_feature_vector(Catalog[t])[c]])

\* the candidates whose features the call could obtain
CluValid == {t \in Range(direct.candidates) : t \in direct.ok}

\* C12: every entry returned is a candidate whose predicted cluster is the
\* predicted cluster of the reference vector, and nothing is returned when
\* no candidate with features is in that cluster.
C12_SameCluster ==
    CluCalled =>
        /\ ~direct.err
        /\ \A i \in 1..Len(direct.recs) :
              /\ direct.recs[i].uri \in CluValid
              /\ TrackCluster(direct.recs[i].uri) = ClusterOf(direct.pref.num)
        /\ (\A t \in CluValid : TrackCluster(t) # ClusterOf(direct.pref.num)) =>
              direct.recs = <<>>

\* a call with fetched candidates in both clusters returned some of them
C12_Witness ==
    /\ CluCalled
    /\ direct.recs # <<>>
    /\ \E t \in CluValid : TrackCluster(t) # ClusterOf(direct.pref.num)
    /\ direct.n >= Len(direct.candidates)

\* a call whose fetched candidates are all in another cluster returned nothing
C12_WitnessNone ==
    /\ CluCalled
    /\ CluValid # {}
    /\ direct.n >= 1
    /\ \A t \in CluValid : TrackCluster(t) # ClusterOf(direct.pref.num)
    /\ direct.recs = <<>>

\* squared scaled distance of a track to the reference of the call made;
\* both vectors are held multiplied by pref.den
DistanceTo(t) ==
    SqDist(scaler_transform(direct.pref.num, direct.pref.den),
           scaler_transform(
               [c \in 1..Dim |-> direct.pref.den * extract_feature_vector(Catalog[t])[c]],
               direct.pref.den))

\* the fetched candidates in the cluster of the reference
CluMates == {t \in CluValid : TrackCluster(t) = ClusterOf(direct.pref.num)}

\* the largest distance among them, 1 when they all sit on the reference
CluMaxDistance ==
    LET far == CHOOSE t \in CluMates : \A o \in CluMates : DistanceTo(o) <= DistanceTo(t)
    IN  IF DistanceTo(far) > 0 THEN DistanceTo(far) ELSE 1

\* C13: every entry returned carries the confidence 1 - d / max_d of its own
\* track, which is above 0.2 and at most 1.0; at most n entries are
\* returned, in non-increasing confidence order.
C13_Confidence ==
    CluCalled =>
        /\ Len(direct.recs) <= direct.n
        /\ \A i \in 1..Len(direct.recs) :
              LET x == direct.recs[i].score
              IN  /\ x.d2 = DistanceTo(direct.recs[i].uri)
                  /\ x.m2 = CluMaxDistance
                  /\ 100 * x.d2 < 64 * x.m2
                  /\ x.d2 >= 0
                  /\ x.m2 > 0
        /\ \A i \in 1..(Len(direct.recs) - 1) :
              direct.recs[i].score.d2 <= direct.recs[i + 1].score.d2

\* a call returned entries although a fetched candidate of the cluster sat
\* exactly at confidence 0.2 and n was large enough to take every candidate
C13_Witness ==
    /\ CluCalled
    /\ direct.recs # <<>>
    /\ direct.n >= Len(direct.candidates)
    /\ \E t \in CluMates : 100 * DistanceTo(t) = 64 * CluMaxDistance

----
(* Further properties of generate_recommendations, checked under Spec *)

\* the call made is in clustering mode on an engine that lacks an artifact
ClusteringWithoutModels ==
    /\ algorithm = "clustering"
    /\ ~(kmeans_model /\ scaler)

\* the step of the call made was reached
Reached(phase) == \E i \in 1..Len(trace) : trace[i] = phase

\* C14: with the scaler or the cluster model absent the Cluster Scorer
\* returns the empty list without raising, without a catalog fetch and
\* without a cache write, whatever the fetches would do; a clustering call
\* that reaches the scorer then gets past it with no recommendation and an
\* untouched cache, never fails, and returns an empty result.
C14_ModelsAbsent ==
    ClusteringWithoutModels =>
        /\ \A ok \in SUBSET Range(filtered_candidates) :
           \A out \in cluster_based_recommendations(
                          user_preference_vector, filtered_candidates,
                          n_recommendations, feature_cache, ok,
                          kmeans_model, scaler) :
              /\ ~out.err
              /\ out.recs = <<>>
              /\ out.calls = <<>>
              /\ out.cache = feature_cache
        /\ feature_cache = EmptyCache
        /\ failure # "scoring"
        /\ Reached("Scored") =>
              /\ recommendations = <<>>
              /\ pc # "Failed"
        /\ pc = "Completed" =>
              /\ result.returned
              /\ result.recommended_tracks = <<>>
              /\ result.confidence_scores = <<>>

\* a clustering call with new candidates on an engine without the scaler
\* has completed
C14_Witness ==
    /\ ClusteringWithoutModels
    /\ ~scaler
    /\ kmeans_model
    /\ filtered_candidates # <<>>
    /\ pc = "Completed"
    /\ result.returned

----
(* Direct calls of the Hybrid Blender *)

MaxBlendCands == 2
MaxBlendN == 2
BlendTracks == {"t1", "t2", "t6"}
BlendUsers == {u \in Users({"t1"}, 1) :
                  u.loved_it = <<>> /\ u.like_it = <<>> /\ u.okay = <<>>}

\* one call of _hybrid_recommendations made as generate_recommendations
\* makes it, for a user whose preference vector is the zero vector
DirectHybrid ==
    /\ direct.fn = "none"
    /\ \E u \in BlendUsers, c \in SeqsUpTo(BlendTracks, MaxBlendCands),
          n \in 0..MaxBlendN :
       \E ok \in SUBSET (Range(c) \cup Range(u.recently_searched)) :
       \E out \in hybrid_recommendations(
                      u, ZeroPref, c, n, feature_cache, ok, kmeans_model, scaler) :
          /\ direct' = [fn |-> "_hybrid_recommendations", user |-> u,
                        candidates |-> c, n |-> n, ok |-> ok,
                        cache_before |-> feature_cache,
                        err |-> out.err, recs |-> out.recs]
          /\ feature_cache' = out.cache
    /\ UNCHANGED <<services, app, engine, pc, trace, arguments, user_preference_vector,
                   filtered_candidates, recommendations, timed_phases,
                   recommended_tracks, confidence_scores, result, failure>>

NextBlend == DirectHybrid

SpecBlend == Init /\ [][NextBlend]_vars

----
(* Properties of _hybrid_recommendations, checked under SpecBlend *)

BlendCalled == direct.fn = "_hybrid_recommendations"

\* what the Similarity Scorer returns for the call made, asked for k entries
\* with the last searched track as the seed
BlendSimilarityOutputs(k) ==
    IF direct.user.recently_searched = <<>>
    THEN {[err |-> FALSE, recs |-> <<>>, cache |-> direct.cache_before]}
    ELSE find_similar_tracks(
             direct.user.recently_searched[Len(direct.user.recently_searched)],
             direct.candidates, k, direct.cache_before, direct.ok)

\* what the Cluster Scorer returns after it, asked for k entries
BlendClusterOutputs(sim, k) ==
    cluster_based_recommendations(
        ZeroPref, direct.candidates, k, sim.cache, direct.ok, kmeans_model, scaler)

\* the score of a track in a scorer output, in thousandths; 0 when missing
ScoreIn(recs, t) ==
    IF \E i \in 1..Len(recs) : recs[i].uri = t
    THEN Milli(recs[CHOOSE i \in 1..Len(recs) : recs[i].uri = t].score)
    ELSE 0

\* C15: the call returns, and the combined score of every entry returned is
\* 0.6 times its similarity score plus 0.4 times its cluster score, a missing
\* score counting 0, and is not zero.
C15_Blend ==
    BlendCalled =>
        /\ ~direct.err
        /\ \E sim \in BlendSimilarityOutputs(2 * direct.n) :
           \E clu \in BlendClusterOutputs(sim, 2 * direct.n) :
              /\ ~sim.err
              /\ ~clu.err
              /\ \A i \in 1..Len(direct.recs) :
                    /\ direct.recs[i].score.micro =
                          600 * ScoreIn(sim.recs, direct.recs[i].uri)
                              + 400 * ScoreIn(clu.recs, direct.recs[i].uri)
                    /\ direct.recs[i].score.micro > 0

\* C16: the call returns at most n entries, in non-increasing combined-score
\* order, no track twice, drawn from what the two scorers return when asked
\* for 2 * n entries each.
C16_TopOfBlend ==
    BlendCalled =>
        /\ ~direct.err
        /\ Len(direct.recs) <= direct.n
        /\ \A i \in 1..(Len(direct.recs) - 1) :
              direct.recs[i].score.micro >= direct.recs[i + 1].score.micro
        /\ \A i, j \in 1..Len(direct.recs) :
              i # j => direct.recs[i].uri # direct.recs[j].uri
        /\ \E sim \in BlendSimilarityOutputs(2 * direct.n) :
           \E clu \in BlendClusterOutputs(sim, 2 * direct.n) :
              \A i \in 1..Len(direct.recs) :
                  \/ \E j \in 1..Len(sim.recs) : sim.recs[j].uri = direct.recs[i].uri
                  \/ \E j \in 1..Len(clu.recs) : clu.recs[j].uri = direct.recs[i].uri

\* the entries of recs at the positions in keep, in order
Kept(recs, keep) == SelectIdx(recs, keep, 1)

\* tracks and scores are the entries of recs at the positions in keep, in
\* order, each track at the index of its own score
PairedWith(tracks, scores, recs, keep) ==
    /\ Len(tracks) = Cardinality(keep)
    /\ Len(scores) = Cardinality(keep)
    /\ \A i \in 1..Cardinality(keep) :
          /\ tracks[i].track_uri = Kept(recs, keep)[i].uri
          /\ scores[i] = Kept(recs, keep)[i].score

\* C17: once the metadata step of a call is over, the tracks and scores it
\* collected are the scored entries at some set of positions (those whose
\* lookup succeeded, none when the client has no get_track_info), in the
\* scorer's order and each track with its own score; the call does not fail
\* for a failed lookup, and the result it returns holds these same lists.
C17_DroppedTogether ==
    Reached("MetadataResolved") =>
        /\ \E keep \in SUBSET (1..Len(recommendations)) :
              /\ PairedWith(recommended_tracks, confidence_scores,
                            recommendations, keep)
              /\ ~HasGetTrackInfo(spotify_client) => keep = {}
        /\ pc # "Failed"
        /\ pc = "Completed" =>
              /\ result.returned
              /\ result.recommended_tracks = recommended_tracks
              /\ result.confidence_scores = confidence_scores

\* a call returned the second of two scored tracks with its own score after
\* the lookup of the first failed
C17_Witness ==
    /\ pc = "Completed"
    /\ Len(recommendations) = 2
    /\ Len(result.recommended_tracks) = 1
    /\ result.recommended_tracks[1].track_uri = recommendations[2].uri
    /\ result.confidence_scores[1] = recommendations[2].score
    /\ recommendations[1].score # recommendations[2].score

----
(* The web application as the caller of generate_recommendations *)

\* the dispatch of lines 411-422 for given arguments
score_with(alg, u, pref, filtered, n, cache, ok, kmeans_loaded, scaler_loaded) ==
    IF alg = "similarity"
    THEN similarity_based_recommendations(u, pref, filtered, n, cache, ok)
    ELSE IF alg = "clustering"
    THEN cluster_based_recommendations(
             pref, filtered, n, cache, ok, kmeans_loaded, scaler_loaded)
    ELSE hybrid_recommendations(
             u, pref, filtered, n, cache, ok, kmeans_loaded, scaler_loaded)

\* RecommendationEngine.generate_recommendations as one call: the set of
\* its possible outcomes [err, tracks, scores, cache], over every way the
\* fetches and lookups it makes can fail
generate_recommendations(u, candidates, n, alg, client, cache, kmeans_loaded, scaler_loaded) ==
    UNION {
        LET pref == get_user_preference_vector(u, client, okp)
            filtered == filter_candidates(u, candidates)
        IN  IF pref.err \/ filtered = <<>>
            THEN {[err |-> TRUE, tracks |-> <<>>, scores |-> <<>>, cache |-> cache]}
            ELSE UNION {
                   UNION {
                     IF out.err
                     THEN {[err |-> TRUE, tracks |-> <<>>, scores |-> <<>>,
                            cache |-> out.cache]}
                     ELSE {[err |-> FALSE,
                            tracks |-> resolve_metadata(out.recs, client, resolved).tracks,
                            scores |-> resolve_metadata(out.recs, client, resolved).scores,
                            cache |-> out.cache] :
                              resolved \in SUBSET {out.recs[i].uri : i \in 1..Len(out.recs)}} :
                     out \in score_with(alg, u, pref.val, filtered, n, cache, ok,
                                        kmeans_loaded, scaler_loaded)} :
                   ok \in SUBSET (Range(filtered) \cup Range(u.recently_searched))} :
        okp \in SUBSET Range(positive_tracks(u)) }

\* bounds on what the sessions do
MaxCalls == 3
MaxLikes == 1
MaxResults == 1

\* the tracks a search of the catalog shows
AppTracks == {"t1", "t6"}

\* the page asks for 5 recommendations and names no algorithm
PageN == 5
DefaultAlgorithm == "hybrid"

\* the User object of a session: authenticate_user builds it from the row
SessionUser(s) ==
    [loved_it |-> <<>>, like_it |-> <<>>, okay |-> <<>>, hate_it |-> <<>>,
     recently_searched |-> app.session[s].recently_searched]

\* the login form: authenticate_user reads the row into the session
Login(s) ==
    /\ ~app.session[s].logged_in
    /\ app' = [app EXCEPT !.session[s] =
                  [logged_in |-> TRUE, count |-> app.stored_count,
                   recently_searched |-> app.stored_searched]]
    /\ UNCHANGED <<services, engine, feature_cache, pc, trace, arguments,
                   user_preference_vector, filtered_candidates, recommendations,
                   timed_phases, recommended_tracks, confidence_scores, result,
                   failure, direct>>

\* the Like button of a search result: the track is appended to the
\* session's list and the list is written to the row
Like(s) ==
    /\ app.session[s].logged_in
    /\ app.session[s].count > 0
    /\ Len(app.session[s].recently_searched) < MaxLikes
    /\ \E t \in AppTracks :
          LET searched == Append(app.session[s].recently_searched, t)
          IN  app' = [app EXCEPT !.session[s].recently_searched = searched,
                                 !.stored_searched = searched]
    /\ UNCHANGED <<services, engine, feature_cache, pc, trace, arguments,
                   user_preference_vector, filtered_candidates, recommendations,
                   timed_phases, recommended_tracks, confidence_scores, result,
                   failure, direct>>

\* UserManager.decrement_user_count on a row holding count
decrement_user_count(count) ==
    IF count <= 0 THEN [done |-> FALSE, count |-> count]
    ELSE [done |-> TRUE, count |-> count - 1]

\* the counts lowered whether or not the call raised
after_generation_mut(err, stored_count, session_count) ==
    [stored_count |-> decrement_user_count(stored_count).count,
     session_count |-> session_count - 1]

\* main.py lines 233-257: lines 252-253 run only when the call returned
after_generation(err, stored_count, session_count) ==
    IF err
    THEN [stored_count |-> stored_count, session_count |-> session_count]
    ELSE [stored_count |-> decrement_user_count(stored_count).count,
          session_count |-> session_count - 1]

\* the Get Recommendations button of the page, for a logged-in session with
\* count left: the search results are the candidates
GetRecommendations(s) ==
    /\ app.session[s].logged_in
    /\ app.session[s].count > 0
    /\ app.calls < MaxCalls
    /\ \E c \in SeqsUpTo(AppTracks, MaxResults) :
       \E out \in generate_recommendations(
                      SessionUser(s), c, PageN, DefaultAlgorithm, spotify_client,
                      feature_cache, kmeans_model, scaler) :
          LET after == after_generation(out.err, app.stored_count,
                                        app.session[s].count)
          IN  /\ app' = [app EXCEPT
                            !.stored_count = after.stored_count,
                            !.session[s].count = after.session_count,
                            !.calls = app.calls + 1,
                            !.successes = app.successes + (IF out.err THEN 0 ELSE 1),
                            !.last = [fn |-> "generate_recommendations",
                                      session |-> s, candidates |-> c,
                                      err |-> out.err,
                                      count_before |-> app.stored_count,
                                      count_after_call |-> app.stored_count,
                                      count_after |-> after.stored_count]]
              /\ feature_cache' = out.cache
    /\ UNCHANGED <<services, engine, pc, trace, arguments, user_preference_vector,
                   filtered_candidates, recommendations, timed_phases,
                   recommended_tracks, confidence_scores, result, failure, direct>>

NextApp == \E s \in Sessions : Login(s) \/ Like(s) \/ GetRecommendations(s)

\* main.py builds the engine with the core client
InitApp == Init /\ spotify_client = "core"

SpecApp == InitApp /\ [][NextApp]_vars

----
(* Properties of the caller, checked under SpecApp *)

AppCalled == app.last.fn = "generate_recommendations"

AppCallReturned == AppCalled /\ ~app.last.err

----
(* The exception a failed call hands to its caller *)

\* the exception raised inside the try block of generate_recommendations by
\* the step that failed: get_user_preference_vector wraps its own failures
\* (lines 219-221), line 408 raises for an empty filtered list, the scorers
\* wrap theirs (290, 375) except for the NameError of line 459, and
\* RecommendationResult raises ValueError
InnerException(cause, alg) ==
    [step |-> cause,
     type |-> IF cause = "result" THEN "ValueError"
              ELSE IF cause = "scoring" /\ alg # "clustering" /\ ~UserNameBound
              THEN "NameError"
              ELSE "PlaylistGenerationError"]

\* a handler that lets the exception through as it came
wrap_exception_mut(e) == [type |-> e.type, cause |-> e]

\* lines 448-450: except Exception as e: raise PlaylistGenerationError(... e)
wrap_exception(e) == [type |-> "PlaylistGenerationError", cause |-> e]

\* what the caller of the failed call catches
RaisedToCaller == wrap_exception(InnerException(failure, algorithm))

\* a phase occurs at most once in the trace of the call
NoStepTwice == \A i, j \in 1..Len(trace) : trace[i] = trace[j] => i = j

\* C19: a failed call hands its caller a PlaylistGenerationError whose cause
\* is the exception of the step the call stopped at, returns no result, and
\* no step of a call is entered twice.
C19_WrappedOnce ==
    /\ NoStepTwice
    /\ pc = "Failed" =>
          /\ ~result.returned
          /\ RaisedToCaller.type = "PlaylistGenerationError"
          /\ RaisedToCaller.cause.step = failure
          /\ failure = "preference" <=> trace = <<"Started", "Failed">>
          /\ failure = "no_new_tracks" <=>
                (/\ trace = <<"Started", "PreferenceBuilt", "CandidatesFiltered",
                              "Failed">>
                 /\ filtered_candidates = <<>>)
          /\ failure = "scoring" <=>
                (/\ trace = <<"Started", "PreferenceBuilt", "CandidatesFiltered",
                              "Failed">>
                 /\ filtered_candidates # <<>>)

\* a call failed in scoring with an exception of another type inside
C19_Witness ==
    /\ pc = "Failed"
    /\ failure = "scoring"
    /\ RaisedToCaller.cause.type = "NameError"
    /\ RaisedToCaller.type = "PlaylistGenerationError"

\* C20: a call made with n_recommendations zero or negative is rejected: it
\* never reaches a scorer, never completes and returns no result.
C20_Rejected ==
    (pc # "Idle" /\ n_recommendations <= 0) =>
        /\ ~Reached("Scored")
        /\ pc # "Completed"
        /\ ~result.returned

\* what the code does with such a call: with a negative n_recommendations it
\* returns a result that holds a track
C20_NegativeAccepted ==
    /\ n_recommendations < 0
    /\ result.returned
    /\ result.recommended_tracks # <<>>

----
(* The timer of generate_recommendations, checked under Spec *)

\* C25: a result that is returned carries a processing_time taken after the
\* metadata of the scored tracks was resolved, so that it covers the
\* preference, filter, score and resolve steps.
C25_TimerCoversResolve ==
    result.returned =>
        /\ "PreferenceBuilt" \in Range(result.timed_phases)
        /\ "CandidatesFiltered" \in Range(result.timed_phases)
        /\ "Scored" \in Range(result.timed_phases)
        /\ "MetadataResolved" \in Range(result.timed_phases)

\* a call returned a result holding a track, whose lookup the time taken
\* does not cover
C25_ResolvedAfterTimer ==
    /\ result.returned
    /\ result.recommended_tracks # <<>>
    /\ "Scored" \in Range(result.timed_phases)
    /\ "MetadataResolved" \notin Range(result.timed_phases)

----
(* The Preference Aggregator when every fetch fails, checked under Spec *)

\* the positive tracks of the current call
CallPositive == Range(positive_tracks(user))

\* C26: on an engine built with the core client, for a user with a positive
\* track, get_user_preference_vector returns the zero vector without an
\* error whenever none of the positive tracks can be fetched, and a call
\* that got past the preference step holds the zero vector and goes on to
\* filtering and scoring with it.
C26_AllFetchesFail ==
    (pc # "Idle" /\ spotify_client = "core" /\ CallPositive # {}) =>
        /\ \A ok \in SUBSET (Tracks \ CallPositive) :
              LET out == get_user_preference_vector(user, spotify_client, ok)
              IN  /\ ~out.err
                  /\ out.val = ZeroPref
        /\ pc \in {"PreferenceBuilt", "CandidatesFiltered", "Scored",
                   "MetadataResolved", "Completed"} =>
              user_preference_vector = ZeroPref
        /\ failure \in {"no_new_tracks", "scoring", "result"} =>
              user_preference_vector = ZeroPref

\* such a call was scored in clustering mode with the zero vector and
\* returned a track
C26_Witness ==
    /\ spotify_client = "core"
    /\ CallPositive # {}
    /\ algorithm = "clustering"
    /\ pc = "Scored"
    /\ user_preference_vector = ZeroPref
    /\ recommendations # <<>>

----
(* Normalisation of the cluster distances, checked under SpecClu *)

\* the positions of the candidate list holding a fetched track of the
\* reference's cluster
CluMatePositions ==
    {i \in 1..Len(direct.candidates) : direct.candidates[i] \in CluMates}

\* the smaller of two numbers
Smaller(a, b) == IF a <= b THEN a ELSE b

\* C27: every entry returned carries 1 - distance / max_distance, where
\* max_distance is the largest distance among the fetched candidates of the
\* reference's cluster; when all of them are at distance 0, max_distance is
\* 1 and each of them gets confidence 1.0 and is returned, up to n entries.
C27_MaxDistanceGuard ==
    (CluCalled /\ CluMates # {}) =>
        /\ ~direct.err
        /\ \A i \in 1..Len(direct.recs) :
              /\ direct.recs[i].score.m2 = CluMaxDistance
              /\ direct.recs[i].score.m2 # 0
              /\ direct.recs[i].score.d2 = DistanceTo(direct.recs[i].uri)
        /\ (\A t \in CluMates : DistanceTo(t) = 0) =>
              /\ CluMaxDistance = 1
              /\ Len(direct.recs) = Smaller(direct.n, Cardinality(CluMatePositions))
              /\ \A i \in 1..Len(direct.recs) :
                    /\ direct.recs[i].uri \in CluMates
                    /\ direct.recs[i].score.d2 = 0
                    /\ direct.recs[i].score.m2 = 1

\* a call whose same-cluster candidates all sit on the reference, among
\* candidates of another cluster, returned two entries
C27_Witness ==
    /\ CluCalled
    /\ CluMates # {}
    /\ \A t \in CluMates : DistanceTo(t) = 0
    /\ CluValid # CluMates
    /\ Len(direct.recs) = 2

\* C28: when a fetched candidate of the reference's cluster is at nonzero
\* distance, the farthest of them has confidence 0 and is not among the
\* entries returned; with a single such candidate nothing is returned.
C28_FarthestDropped ==
    (CluCalled /\ \E t \in CluMates : DistanceTo(t) > 0) =>
        /\ \A t \in CluMates :
              DistanceTo(t) = CluMaxDistance =>
                  /\ confidence_of(DistanceTo(t), CluMaxDistance).d2
                        = confidence_of(DistanceTo(t), CluMaxDistance).m2
                  /\ \A i \in 1..Len(direct.recs) : direct.recs[i].uri # t
        /\ Cardinality(CluMatePositions) = 1 => direct.recs = <<>>
        /\ Cardinality(CluMates) = 1 => direct.recs = <<>>

\* a call with n large enough for every candidate returned a nearer track
\* and left the farthest one out
C28_Witness ==
    /\ CluCalled
    /\ direct.n >= Len(direct.candidates)
    /\ direct.recs # <<>>
    /\ \E t \in CluMates : DistanceTo(t) > 0

\* a call with one fetched candidate in the reference's cluster, at nonzero
\* distance, and n at least 1 returned nothing
C28_WitnessSingle ==
    /\ CluCalled
    /\ direct.n >= 1
    /\ Cardinality(CluMatePositions) = 1
    /\ \E t \in CluMates : DistanceTo(t) > 0
    /\ direct.recs = <<>>

----
(* The Feature Cache under direct puts, gets, clears and scorer fetches *)

MaxCacheOps == 3
CacheTracks == {"t1", "t2"}

\* the vectors written: those of the tracks, under either key
CacheVectors == {extract_feature_vector(Catalog[t]) : t \in CacheTracks}

\* RecommendationEngine.clear_feature_cache
clear_feature_cache(cache) == EmptyCache

\* what the cache operations leave alone
CacheFrame == <<engine, pc, trace, arguments, locals, app, inflight, core_client,
                db, rate_limiter>>

\* _cache_features(t, v)
CachePut ==
    /\ Len(cache_log) < MaxCacheOps
    /\ \E t \in CacheTracks, v \in CacheVectors :
          /\ feature_cache' = cache_features(feature_cache, t, v)
          /\ cache_log' = Append(cache_log, [op |-> "put", track |-> t, vector |-> v])
          /\ direct' = [fn |-> "_cache_features", track |-> t]
    /\ UNCHANGED CacheFrame

\* _get_cached_features(t)
CacheGet ==
    /\ \E t \in CacheTracks :
          direct' = [fn |-> "_get_cached_features", track |-> t,
                     out |-> get_cached_features(feature_cache, t)]
    /\ UNCHANGED <<CacheFrame, feature_cache, cache_log>>

\* clear_feature_cache()
CacheClear ==
    /\ Len(cache_log) < MaxCacheOps
    /\ feature_cache' = clear_feature_cache(feature_cache)
    /\ cache_log' = Append(cache_log, [op |-> "clear"])
    /\ direct' = [fn |-> "clear_feature_cache"]
    /\ UNCHANGED CacheFrame

\* a scorer call with one candidate: line 263 writes the candidate's vector
\* when it was not cached and its fetch succeeded
CacheFetch ==
    /\ Len(cache_log) < MaxCacheOps
    /\ \E t \in CacheTracks, ok \in SUBSET (CacheTracks \cup {SimSeed}) :
       \E out \in find_similar_tracks(SimSeed, <<t>>, 1, feature_cache, ok) :
          /\ feature_cache' = out.cache
          /\ cache_log' =
                IF SimSeed \in ok /\ t \in ok /\ get_cached_features(feature_cache, t).err
                THEN Append(cache_log,
                            [op |-> "put", track |-> t,
                             vector |-> extract_feature_vector(Catalog[t])])
                ELSE cache_log
          /\ direct' = [fn |-> "find_similar_tracks", seed |-> SimSeed,
                        candidates |-> <<t>>, n |-> 1, ok |-> ok,
                        cache_before |-> feature_cache,
                        err |-> out.err, recs |-> out.recs]
    /\ UNCHANGED CacheFrame

NextCache == CachePut \/ CacheGet \/ CacheClear \/ CacheFetch

InitCache == Init /\ spotify_client = "core" /\ kmeans_model /\ scaler

SpecCache == InitCache /\ [][NextCache]_vars

\* what the operations logged so far leave for a track: the vector of the
\* last put after the last clear, absent when there is none
RECURSIVE LastPut(_, _)
LastPut(log, t) ==
    IF log = <<>> THEN Err(zeros)
    ELSE LET e == log[Len(log)]
         IN  IF e.op = "clear" THEN Err(zeros)
             ELSE IF e.track = t THEN Ok(e.vector)
             ELSE LastPut(SubSeq(log, 1, Len(log) - 1), t)

\* C21: after any sequence of puts, gets, clears and scorer fetches, a get
\* answers with the vector of the last put for the track since the last
\* clear and with absent when there is none; right after a clear every
\* track is absent; a failed fetch leaves the cache as it was.
C21_LastPutWins ==
    /\ \A t \in Tracks : get_cached_features(feature_cache, t) = LastPut(cache_log, t)
    /\ direct.fn = "_get_cached_features" => direct.out = LastPut(cache_log, direct.track)
    /\ direct.fn = "clear_feature_cache" =>
          \A t \in Tracks : get_cached_features(feature_cache, t).err
    /\ (direct.fn = "find_similar_tracks" /\ direct.candidates[1] \notin direct.ok) =>
          feature_cache = direct.cache_before

\* a get answered with the second of two different vectors put for its track
C21_Witness ==
    /\ direct.fn = "_get_cached_features"
    /\ Len(cache_log) >= 2
    /\ cache_log[1].op = "put"
    /\ cache_log[2].op = "put"
    /\ cache_log[1].track = direct.track
    /\ cache_log[2].track = direct.track
    /\ cache_log[1].vector # cache_log[2].vector
    /\ ~direct.out.err
    /\ direct.out.val = cache_log[Len(cache_log)].vector

\* a get after a put and a clear found nothing
C21_WitnessCleared ==
    /\ direct.fn = "_get_cached_features"
    /\ Len(cache_log) >= 2
    /\ cache_log[Len(cache_log) - 1].op = "put"
    /\ cache_log[Len(cache_log) - 1].track = direct.track
    /\ cache_log[Len(cache_log)].op = "clear"
    /\ direct.out.err

\* a scorer call whose candidate fetch failed, on a cache holding an entry
C21_WitnessFailedFetch ==
    /\ direct.fn = "find_similar_tracks"
    /\ SimSeed \in direct.ok
    /\ direct.candidates[1] \notin direct.ok
    /\ direct.cache_before # EmptyCache
    /\ direct.candidates[1] \notin DOMAIN direct.cache_before

----
(* validate_username *)

\* the longest strings enumerated in full
MaxNameLen == 3

\* the length limits of line 62
MinUsernameLength == 3
MaxUsernameLength == 30

\* characters, by name: a lower-case letter, an upper-case letter, a digit,
\* the underscore, the at sign, the space and the line feed
NameChars == {"a", "Z", "7", "_", "@", "space", "linefeed"}

\* the class [a-zA-Z0-9_] of line 65
WordChars == {"a", "Z", "7", "_"}

\* the string of k letters a
Fill(k) == [i \in 1..k |-> "a"]

\* the arguments tried: every string up to MaxNameLen, strings around the
\* upper length limit ending in any character, and values that are no string
UsernameInputs ==
    {[kind |-> "str", chars |-> c] : c \in SeqsUpTo(NameChars, MaxNameLen)}
        \cup {[kind |-> "str", chars |-> Fill(k) \o <<c>>] :
                 k \in (MaxUsernameLength - 3)..(MaxUsernameLength + 1), c \in NameChars}
        \cup {[kind |-> "None", chars |-> <<>>], [kind |-> "int", chars |-> <<>>],
              [kind |-> "zero", chars |-> <<>>], [kind |-> "list", chars |-> <<>>]}

\* Python truth value of the argument: None, 0 and the empty string are false
Truthy(x) ==
    IF x.kind = "str" THEN x.chars # <<>>
    ELSE x.kind \in {"int", "list"}

\* re.match(r'^[a-zA-Z0-9_]+$', s): one or more characters of the class up
\* to the end of the string, where $ also matches just before a line feed
\* that ends the string
re_match_username(chars) ==
    LET body == IF chars # <<>> /\ chars[Len(chars)] = "linefeed"
                THEN SubSeq(chars, 1, Len(chars) - 1)
                ELSE chars
    IN  /\ body # <<>>
        /\ \A i \in 1..Len(body) : body[i] \in WordChars

\* validators.validate_username, lines 51-69
validate_username(x) ==
    IF ~Truthy(x) \/ x.kind # "str" THEN "DataValidationError"
    ELSE IF Len(x.chars) < MinUsernameLength \/ Len(x.chars) > MaxUsernameLength
    THEN "DataValidationError"
    ELSE IF ~re_match_username(x.chars) THEN "DataValidationError"
    ELSE "True"

\* one call of validate_username, with its argument and outcome
DirectValidate ==
    /\ direct.fn = "none"
    /\ \E x \in UsernameInputs :
          direct' = [fn |-> "validate_username", input |-> x,
                     out |-> validate_username(x)]
    /\ UNCHANGED <<services, app, engine, feature_cache, pc, trace, arguments, locals>>

NextName == DirectValidate

InitName == Init /\ spotify_client = "core" /\ kmeans_model /\ scaler

SpecName == InitName /\ [][NextName]_vars

\* a string of 3 to 30 characters, each a letter, a digit or an underscore
IsValidUsername(x) ==
    /\ x.kind = "str"
    /\ Len(x.chars) >= 3
    /\ Len(x.chars) <= 30
    /\ \A i \in 1..Len(x.chars) : x.chars[i] \in {"a", "Z", "7", "_"}

\* C24: validate_username returns True exactly for the strings of 3 to 30
\* letters, digits and underscores and raises DataValidationError for every
\* other argument.
C24_ExactlyValid ==
    direct.fn = "validate_username" =>
        /\ direct.out \in {"True", "DataValidationError"}
        /\ direct.out = "True" <=> IsValidUsername(direct.input)

\* a string ending in a line feed was accepted
C24_LineFeedAccepted ==
    /\ direct.fn = "validate_username"
    /\ direct.input.kind = "str"
    /\ direct.input.chars = <<"a", "a", "linefeed">>
    /\ direct.out = "True"

\* apart from a line feed at the end, the outcome is as stated
C24_ExceptFinalLineFeed ==
    (/\ direct.fn = "validate_username"
     /\ ~(/\ direct.input.kind = "str"
          /\ direct.input.chars # <<>>
          /\ direct.input.chars[Len(direct.input.chars)] = "linefeed")) =>
        /\ direct.out \in {"True", "DataValidationError"}
        /\ direct.out = "True" <=> IsValidUsername(direct.input)

----
(* RateLimiter *)

\* the limiter is built with max_requests and window_seconds; the clock
\* runs up to MaxTime and MaxLimiterCalls calls are made
MaxRequests == 2
WindowSeconds == 3
MaxTime == 5
MaxLimiterCalls == 5

\* a request dropped a second before it leaves the window
within_window_mut(now, req_time, window) == now - req_time < window - 1

\* line 285: (now - req_time).total_seconds() < self.window_seconds
within_window(now, req_time, window) == now - req_time < window

\* lines 279-286: the list of the key, created empty when missing, without
\* the requests that left the window
recent_requests(requests, key, now) ==
    LET old == IF key \in DOMAIN requests THEN requests[key] ELSE <<>>
    IN  SelectIdx(old, {i \in 1..Len(old) : within_window(now, old[i], WindowSeconds)}, 1)

\* RateLimiter.is_allowed: the outcome and the dict it leaves
is_allowed(requests, key, now) ==
    LET kept == recent_requests(requests, key, now)
        full == Len(kept) >= MaxRequests
    IN  [out |-> ~full,
         requests |-> [k \in DOMAIN requests \cup {key} |->
                          IF k # key THEN requests[k]
                          ELSE IF full THEN kept ELSE Append(kept, now)]]

LimiterFrame == <<engine, feature_cache, pc, trace, arguments, locals, direct, app,
                  cache_log, inflight, core_client, db>>

\* datetime.utcnow() moves on
Tick ==
    /\ rate_limiter.now < MaxTime
    /\ rate_limiter' = [rate_limiter EXCEPT !.now = rate_limiter.now + 1]
    /\ UNCHANGED LimiterFrame

\* rate_limit_check for the user named key: is_allowed(key) at the current
\* time; a refusal becomes the 429 response
RateLimitCheck(key) ==
    /\ rate_limiter.calls < MaxLimiterCalls
    /\ LET r == is_allowed(rate_limiter.requests, key, rate_limiter.now)
       IN  rate_limiter' =
               [rate_limiter EXCEPT
                   !.requests = r.requests,
                   !.calls = rate_limiter.calls + 1,
                   !.allowed[key] = IF r.out THEN Append(@, rate_limiter.now) ELSE @,
                   !.last = [fn |-> "is_allowed", key |-> key,
                             now |-> rate_limiter.now, out |-> r.out,
                             status |-> IF r.out THEN "passed" ELSE "429",
                             before |-> rate_limiter.requests]]
    /\ UNCHANGED LimiterFrame

NextLimiter == Tick \/ \E key \in LimiterKeys : RateLimitCheck(key)

InitLimiter == Init /\ spotify_client = "core" /\ kmeans_model /\ scaler

SpecLimiter == InitLimiter /\ [][NextLimiter]_vars

\* the calls for key that returned True at a time from a to b
AllowedWithin(key, a, b) ==
    {i \in 1..Len(rate_limiter.allowed[key]) :
        rate_limiter.allowed[key][i] >= a /\ rate_limiter.allowed[key][i] <= b}

\* the requests recorded for a key, none when the key is unknown
Recorded(requests, key) == IF key \in DOMAIN requests THEN requests[key] ELSE <<>>

\* C30: for every key, the calls that returned True within a span of time
\* shorter than window_seconds are at most max_requests; a call that
\* returned False left the key's list without a new entry; the lists of the
\* other keys are as they were before the call.
C30_WindowLimit ==
    /\ \A key \in LimiterKeys, a \in 0..MaxTime, b \in 0..MaxTime :
          (a <= b /\ b - a < WindowSeconds) =>
              Cardinality(AllowedWithin(key, a, b)) <= MaxRequests
    /\ rate_limiter.last.fn = "is_allowed" =>
          /\ ~rate_limiter.last.out =>
                /\ Len(Recorded(rate_limiter.requests, rate_limiter.last.key))
                      <= Len(Recorded(rate_limiter.last.before, rate_limiter.last.key))
                /\ \A i \in 1..Len(Recorded(rate_limiter.requests, rate_limiter.last.key)) :
                      \E j \in 1..Len(Recorded(rate_limiter.last.before, rate_limiter.last.key)) :
                         Recorded(rate_limiter.requests, rate_limiter.last.key)[i]
                            = Recorded(rate_limiter.last.before, rate_limiter.last.key)[j]
          /\ \A k \in LimiterKeys \ {rate_limiter.last.key} :
                Recorded(rate_limiter.requests, k) = Recorded(rate_limiter.last.before, k)

\* a key was refused while full, was allowed again once its requests had
\* left the window, and the other key was allowed in between
C30_Witness ==
    /\ rate_limiter.last.fn = "is_allowed"
    /\ rate_limiter.last.out
    /\ rate_limiter.last.key = "alice"
    /\ Len(rate_limiter.allowed["alice"]) = MaxRequests + 1
    /\ Len(rate_limiter.allowed["bob"]) >= 1
    /\ rate_limiter.calls = MaxLimiterCalls

\* a call was refused for a key holding max_requests requests in the window
C30_WitnessRefused ==
    /\ rate_limiter.last.fn = "is_allowed"
    /\ ~rate_limiter.last.out
    /\ Len(Recorded(rate_limiter.requests, rate_limiter.last.key)) = MaxRequests
    /\ Len(rate_limiter.allowed["bob"]) >= 1
    /\ Len(rate_limiter.allowed["alice"]) >= 1

----
(* decrement_user_count called from several connections *)

MaxInitialCount == 3
MaxDecrements == 4

DbFrame == <<engine, feature_cache, pc, trace, arguments, locals, direct, app,
             cache_log, inflight, core_client, rate_limiter>>

\* create_user(initial_count): the row is written with its count
CreateUser ==
    /\ ~db.registered
    /\ \E c \in 0..MaxInitialCount :
          db' = [db EXCEPT !.registered = TRUE, !.committed = c, !.initial_count = c]
    /\ UNCHANGED DbFrame

\* lines 383-396: a caller opens a connection and reads the count; a count
\* of 0 or less ends the call with False.  The SELECT runs outside any
\* transaction, so the row stays open to the other connections.
SelectCount(p) ==
    /\ db.registered
    /\ db.caller[p].at = "idle"
    /\ db.calls < MaxDecrements
    /\ IF db.committed <= 0
       THEN db' = [db EXCEPT
                      !.calls = db.calls + 1,
                      !.returned_false = db.returned_false + 1,
                      !.last = [fn |-> "decrement_user_count", caller |-> p,
                                out |-> FALSE, read |-> db.committed,
                                before |-> db.committed, after |-> db.committed]]
       ELSE db' = [db EXCEPT
                      !.calls = db.calls + 1,
                      !.caller[p] = [at |-> "read", current_count |-> db.committed]]
    /\ UNCHANGED DbFrame

\* lines 398-406: the count read, less one, is written and committed, and
\* the call returns True
UpdateCount(p) ==
    /\ db.caller[p].at = "read"
    /\ db' = [db EXCEPT
                 !.committed = db.caller[p].current_count - 1,
                 !.caller[p] = NotCalling,
                 !.returned_true = db.returned_true + 1,
                 !.last = [fn |-> "decrement_user_count", caller |-> p,
                           out |-> TRUE, read |-> db.caller[p].current_count,
                           before |-> db.committed,
                           after |-> db.caller[p].current_count - 1]]
    /\ UNCHANGED DbFrame

NextDb == CreateUser \/ \E p \in DbCallers : SelectCount(p) \/ UpdateCount(p)

InitDb == Init /\ spotify_client = "core" /\ kmeans_model /\ scaler

SpecDb == InitDb /\ [][NextDb]_vars

\* no caller is between its SELECT and its UPDATE
DbQuiet == \A p \in DbCallers : db.caller[p].at = "idle"

\* C29: however the calls interleave, the stored count is never negative;
\* a call returns False, leaving the count as it is, exactly when the count
\* is 0 or less; a call that returns True lowers the stored count by one;
\* once all calls returned the count is the initial count less the number
\* of True returns.
C29_NoLostUpdate ==
    db.registered =>
        /\ db.committed >= 0
        /\ db.last.fn = "decrement_user_count" =>
              /\ db.last.out <=> db.last.before > 0
              /\ ~db.last.out => db.last.after = db.last.before
              /\ db.last.out => db.last.after = db.last.before - 1
        /\ DbQuiet => db.committed = db.initial_count - db.returned_true

\* two calls returned True and the count went down by one
C29_LostUpdate ==
    /\ db.registered
    /\ DbQuiet
    /\ db.returned_true = 2
    /\ db.committed = db.initial_count - 1

\* a call returned True on a count that was 0 when it wrote
C29_TrueAtZero ==
    /\ db.last.fn = "decrement_user_count"
    /\ db.last.out
    /\ db.last.before = 0

\* the stored count is never negative
C29_NeverNegative == db.committed >= 0

----
(* The track cache of the core SpotifyClient *)

MaxClientCalls == 4

ClientFrame == <<engine, feature_cache, pc, trace, arguments, locals, direct, app,
                 cache_log, inflight, db, rate_limiter>>

\* line 221: track_id in self._track_cache
track_cached(track_cache, track_id) == track_id \in DOMAIN track_cache

\* line 245: self._track_cache[track_id] = track
cache_track(track_cache, track_id, track) ==
    [i \in DOMAIN track_cache \cup {track_id} |->
        IF i = track_id THEN track ELSE track_cache[i]]

\* lines 220-228: get_track(track_id) is entered; a cached track is
\* returned at once, otherwise the catalog call is started and the
\* coroutine waits for it
GetTrackStart(c, track_id) ==
    /\ core_client.task[c].at = "idle"
    /\ core_client.calls < MaxClientCalls
    /\ IF track_cached(core_client.track_cache, track_id)
       THEN core_client' =
               [core_client EXCEPT
                   !.calls = core_client.calls + 1,
                   !.returned[track_id] = @ \cup {core_client.track_cache[track_id]},
                   !.last = [fn |-> "get_track", track_id |-> track_id,
                             out |-> "track",
                             track |-> core_client.track_cache[track_id],
                             api |-> FALSE,
                             earlier |-> core_client.returned[track_id],
                             cache_before |-> core_client.track_cache]]
       ELSE core_client' =
               [core_client EXCEPT
                   !.calls = core_client.calls + 1,
                   !.api_calls = core_client.api_calls + 1,
                   !.task[c] = [at |-> "fetching", track_id |-> track_id,
                                earlier |-> core_client.returned[track_id]]]
    /\ UNCHANGED ClientFrame

\* lines 228-247: the catalog answered with the track's data, which is
\* stored and returned
GetTrackFound(c) ==
    /\ core_client.task[c].at = "fetching"
    /\ \E v \in TrackVersions :
          LET track_id == core_client.task[c].track_id
          IN  core_client' =
                  [core_client EXCEPT
                      !.track_cache = cache_track(core_client.track_cache, track_id, v),
                      !.task[c] = NotFetching,
                      !.returned[track_id] = @ \cup {v},
                      !.last = [fn |-> "get_track", track_id |-> track_id,
                                out |-> "track", track |-> v, api |-> TRUE,
                                earlier |-> core_client.task[c].earlier,
                                cache_before |-> core_client.track_cache]]
    /\ UNCHANGED ClientFrame

\* lines 230-232 and 250-252: the catalog answered with nothing, and None
\* is returned, or the catalog call raised, and SpotifyAPIError is raised;
\* nothing is stored
GetTrackMissing(c) ==
    /\ core_client.task[c].at = "fetching"
    /\ \E out \in {"None", "SpotifyAPIError"} :
          core_client' =
              [core_client EXCEPT
                  !.task[c] = NotFetching,
                  !.last = [fn |-> "get_track",
                            track_id |-> core_client.task[c].track_id,
                            out |-> out, track |-> 0, api |-> TRUE,
                            earlier |-> core_client.task[c].earlier,
                            cache_before |-> core_client.track_cache]]
    /\ UNCHANGED ClientFrame

\* get_audio_features(track_id) fetched and stored the features of a track
\* (lines 264-298), taken as one step
GetAudioFeatures(track_id) ==
    /\ track_id \notin core_client.features_cache
    /\ core_client' = [core_client EXCEPT
                          !.features_cache = @ \cup {track_id},
                          !.last = [fn |-> "get_audio_features", track_id |-> track_id]]
    /\ UNCHANGED ClientFrame

\* clear_cache (lines 672-694): both in-memory caches are emptied; the
\* calls still waiting for the catalog started before this clear
ClearCache ==
    /\ core_client.last.fn # "clear_cache"
    /\ core_client' =
           [core_client EXCEPT
               !.track_cache = [i \in {} |-> 0],
               !.features_cache = {},
               !.returned = [i \in TrackIds |-> {}],
               !.task = [c \in ClientTasks |->
                            [core_client.task[c] EXCEPT !.earlier = {}]],
               !.last = [fn |-> "clear_cache"]]
    /\ UNCHANGED ClientFrame

NextClient ==
    \/ \E c \in ClientTasks, track_id \in TrackIds : GetTrackStart(c, track_id)
    \/ \E c \in ClientTasks : GetTrackFound(c)
    \/ \E c \in ClientTasks : GetTrackMissing(c)
    \/ \E track_id \in TrackIds : GetAudioFeatures(track_id)
    \/ ClearCache

InitClient == Init /\ spotify_client = "core" /\ kmeans_model /\ scaler

SpecClient == InitClient /\ [][NextClient]_vars

\* C23: a get_track(id) entered after a get_track(id) returned a track,
\* with no clear_cache in between, returns that same track without a
\* catalog call; a get_track that finds nothing returns None and leaves the
\* cache as it was; right after clear_cache both caches are empty.
C23_TrackCache ==
    /\ core_client.last.fn = "get_track" =>
          /\ core_client.last.earlier # {} =>
                /\ ~core_client.last.api
                /\ core_client.last.out = "track"
                /\ \A v \in core_client.last.earlier : core_client.last.track = v
          /\ core_client.last.out = "None" =>
                core_client.track_cache = core_client.last.cache_before
    /\ core_client.last.fn = "clear_cache" =>
          /\ DOMAIN core_client.track_cache = {}
          /\ core_client.features_cache = {}

\* a get_track answered from the cache with a track other than the one an
\* earlier call returned, with no clear_cache in between
C23_OtherTrackReturned ==
    /\ core_client.last.fn = "get_track"
    /\ ~core_client.last.api
    /\ \E v \in core_client.last.earlier : v # core_client.last.track

\* what holds in every interleaving: a call entered after a return makes no
\* catalog call and returns the track cached at that moment, which some
\* earlier call returned; a call that got nothing or raised stores nothing
C23_HitReturnsCached ==
    core_client.last.fn = "get_track" =>
        /\ core_client.last.earlier # {} =>
              /\ ~core_client.last.api
              /\ core_client.last.out = "track"
              /\ core_client.last.track = core_client.last.cache_before[core_client.last.track_id]
              /\ core_client.last.track \in core_client.last.earlier
        /\ core_client.last.out \in {"None", "SpotifyAPIError"} =>
              core_client.track_cache = core_client.last.cache_before

----
(* Concurrent generate_recommendations calls on one engine *)

MaxConcCands == 2
MaxConcN == 2

\* the users of the concurrent calls: one without entries and one who
\* searched for t1
ConcUsers == {NoUser, [NoUser EXCEPT !.recently_searched = <<"t1">>]}

ConcAlgorithms == {"clustering", "similarity"}

ConcFrame == <<engine, pc, trace, arguments, locals, direct, app, cache_log,
               core_client, db, rate_limiter>>

\* a fetch that answers with the zero vector
fetched_vector_mut(track_uri) == zeros

\* lines 327-328: the vector extracted from the features the catalog
\* returns for the track
fetched_vector(track_uri) == extract_feature_vector(Catalog[track_uri])

\* lines 395-408 of one call: the arguments are bound, the preference
\* vector is built and the candidates are filtered; an exception ends the
\* call in the handler of lines 448-450
ConcCall(c) ==
    /\ inflight.call[c].at = "idle"
    /\ \E u \in ConcUsers, cands \in SeqsUpTo(ConcTracks, MaxConcCands),
          a \in ConcAlgorithms :
          LET pref == get_user_preference_vector(u, spotify_client, inflight.available)
              filtered == filter_candidates(u, cands)
              failed == pref.err \/ filtered = <<>>
          IN  inflight' =
                  [inflight EXCEPT !.call[c] =
                      [NotRunning EXCEPT
                          !.at = IF failed THEN "Done" ELSE "Filtered",
                          !.user = u,
                          !.candidate_tracks = cands,
                          !.algorithm = a,
                          !.user_preference_vector = pref.val,
                          !.filtered_candidates = IF pref.err THEN <<>> ELSE filtered,
                          !.err = failed]]
    /\ UNCHANGED <<ConcFrame, feature_cache>>

\* lines 411-414 and 419-422: the similarity mode raises before it reads
\* or writes anything
ConcSimilarity(c) ==
    /\ inflight.call[c].at = "Filtered"
    /\ inflight.call[c].algorithm # "clustering"
    /\ \E out \in score_with(inflight.call[c].algorithm, inflight.call[c].user,
                             inflight.call[c].user_preference_vector,
                             inflight.call[c].filtered_candidates, MaxConcN,
                             feature_cache, inflight.available, kmeans_model, scaler) :
          /\ feature_cache' = out.cache
          /\ inflight' =
                [inflight EXCEPT !.call[c] =
                    [@ EXCEPT
                        !.at = "Done",
                        !.err = out.err,
                        !.recommended_tracks =
                            resolve_metadata(out.recs, spotify_client,
                                             inflight.resolvable).tracks,
                        !.confidence_scores =
                            resolve_metadata(out.recs, spotify_client,
                                             inflight.resolvable).scores]]
    /\ UNCHANGED ConcFrame

\* lines 415-418 and 308-318: the cluster scorer is entered; without the
\* models it returns at once
ConcEnterLoop(c) ==
    /\ inflight.call[c].at = "Filtered"
    /\ inflight.call[c].algorithm = "clustering"
    /\ inflight' = [inflight EXCEPT !.call[c].at =
                       IF ModelsAvailable(kmeans_model, scaler) THEN "Loop" ELSE "Scoring"]
    /\ UNCHANGED <<ConcFrame, feature_cache>>

\* lines 320-324: the cache is asked for the next candidate; a cached
\* vector is taken, otherwise the catalog is asked
ConcLookup(c) ==
    /\ inflight.call[c].at = "Loop"
    /\ inflight.call[c].next <= Len(inflight.call[c].filtered_candidates)
    /\ LET t == inflight.call[c].filtered_candidates[inflight.call[c].next]
           cached == get_cached_features(feature_cache, t)
       IN  inflight' =
               IF cached.err
               THEN [inflight EXCEPT !.call[c].at = "Fetch"]
               ELSE [inflight EXCEPT
                        !.call[c].candidate_vectors = Append(@, cached.val),
                        !.call[c].valid_candidates = Append(@, t),
                        !.call[c].next = @ + 1]
    /\ UNCHANGED <<ConcFrame, feature_cache>>

\* lines 326-334: the catalog answers; a fetched vector is taken and
\* written to the cache, a failed fetch skips the candidate
ConcFetch(c) ==
    /\ inflight.call[c].at = "Fetch"
    /\ LET t == inflight.call[c].filtered_candidates[inflight.call[c].next]
       IN  IF t \in inflight.available
           THEN /\ inflight' =
                      [inflight EXCEPT
                          !.call[c].candidate_vectors = Append(@, fetched_vector(t)),
                          !.call[c].valid_candidates = Append(@, t),
                          !.call[c].next = @ + 1,
                          !.call[c].at = "Loop",
                          !.writes[t] = @ + 1]
                /\ feature_cache' = cache_features(feature_cache, t, fetched_vector(t))
           ELSE /\ inflight' = [inflight EXCEPT !.call[c].next = @ + 1,
                                                !.call[c].at = "Loop"]
                /\ UNCHANGED feature_cache
    /\ UNCHANGED ConcFrame

\* the vectors the loop of a call collected, by track
CollectedVectors(call) ==
    [t \in Range(call.valid_candidates) |->
        call.candidate_vectors[
            CHOOSE i \in 1..Len(call.valid_candidates) :
                /\ call.valid_candidates[i] = t
                /\ \A j \in 1..(i - 1) : call.valid_candidates[j] # t]]

\* lines 336-371 and 425-446: the collected vectors are scored, the
\* metadata of the scored tracks is resolved and the result is returned
ConcScore(c) ==
    /\ \/ inflight.call[c].at = "Scoring"
       \/ /\ inflight.call[c].at = "Loop"
          /\ inflight.call[c].next > Len(inflight.call[c].filtered_candidates)
    /\ \E out \in cluster_based_recommendations(
                      inflight.call[c].user_preference_vector,
                      inflight.call[c].valid_candidates, MaxConcN,
                      CollectedVectors(inflight.call[c]), {}, kmeans_model, scaler) :
          inflight' =
              [inflight EXCEPT !.call[c] =
                  [@ EXCEPT
                      !.at = "Done",
                      !.err = out.err,
                      !.recommended_tracks =
                          resolve_metadata(out.recs, spotify_client,
                                           inflight.resolvable).tracks,
                      !.confidence_scores =
                          resolve_metadata(out.recs, spotify_client,
                                           inflight.resolvable).scores]]
    /\ UNCHANGED <<ConcFrame, feature_cache>>

NextConc ==
    \E c \in ConcCalls :
        \/ ConcCall(c)
        \/ ConcSimilarity(c)
        \/ ConcEnterLoop(c)
        \/ ConcLookup(c)
        \/ ConcFetch(c)
        \/ ConcScore(c)

\* one engine with both models loaded and a catalog that answers the same
\* way for a track every time: with its features or with a failure, with
\* its metadata or with a failure
InitConc ==
    /\ EngineInit
    /\ kmeans_model
    /\ scaler
    /\ inflight \in {[NoCalls EXCEPT !.available = a, !.resolvable = r] :
                        a \in SUBSET ConcTracks, r \in {{}, ConcTracks}}

SpecConc == InitConc /\ [][NextConc]_vars

\* what the call returns when it runs alone on an engine with an empty
\* cache: the set of its possible outcomes
ReturnsAlone(call) ==
    LET pref == get_user_preference_vector(call.user, spotify_client, inflight.available)
        filtered == filter_candidates(call.user, call.candidate_tracks)
    IN  IF pref.err \/ filtered = <<>>
        THEN {[err |-> TRUE, tracks |-> <<>>, scores |-> <<>>]}
        ELSE {[err |-> out.err,
               tracks |-> IF out.err THEN <<>>
                          ELSE resolve_metadata(out.recs, spotify_client,
                                                inflight.resolvable).tracks,
               scores |-> IF out.err THEN <<>>
                          ELSE resolve_metadata(out.recs, spotify_client,
                                                inflight.resolvable).scores] :
                 out \in score_with(call.algorithm, call.user, pref.val, filtered,
                                    MaxConcN, EmptyCache, inflight.available,
                                    kmeans_model, scaler)}

\* the candidates of a call that are in none of its user's lists, in order
OwnNewCandidates(call) ==
    SelectIdx(call.candidate_tracks,
              {i \in 1..Len(call.candidate_tracks) :
                  call.candidate_tracks[i] \notin
                      Range(call.user.loved_it) \cup Range(call.user.like_it)
                          \cup Range(call.user.okay) \cup Range(call.user.hate_it)
                          \cup Range(call.user.recently_searched)}, 1)

\* C22: in every interleaving of the calls, each cache entry is the vector
\* extracted from its track's features; the filtered candidates of a call
\* are its own candidates less its own user's tracks; a call that ended
\* has an outcome it can have when running alone.
C22_CallsIndependent ==
    /\ \A t \in DOMAIN feature_cache :
          feature_cache[t] = extract_feature_vector(Catalog[t])
    /\ \A c \in ConcCalls :
          /\ inflight.call[c].at \in {"Filtered", "Loop", "Fetch", "Scoring"} =>
                inflight.call[c].filtered_candidates = OwnNewCandidates(inflight.call[c])
          /\ inflight.call[c].at = "Done" =>
                [err |-> inflight.call[c].err,
                 tracks |-> inflight.call[c].recommended_tracks,
                 scores |-> inflight.call[c].confidence_scores]
                    \in ReturnsAlone(inflight.call[c])

\* two clustering calls with different candidate lists both missed the
\* cache for t6 and both fetched and wrote its vector; both returned a track
C22_Witness ==
    /\ inflight.writes["t6"] = 2
    /\ \A c \in ConcCalls :
          /\ inflight.call[c].at = "Done"
          /\ ~inflight.call[c].err
          /\ inflight.call[c].recommended_tracks # <<>>
          /\ inflight.call[c].algorithm = "clustering"
    /\ inflight.call[1].candidate_tracks # inflight.call[2].candidate_tracks
    /\ "t6" \in DOMAIN feature_cache

\* a call of the user who searched for t1 went through the loop without
\* t1 while the other call kept t1 among its filtered candidates
C22_WitnessFilter ==
    /\ inflight.call[1].user.recently_searched = <<"t1">>
    /\ inflight.call[1].candidate_tracks = <<"t1", "t6">>
    /\ inflight.call[1].at = "Done"
    /\ inflight.call[1].valid_candidates = <<"t6">>
    /\ inflight.call[2].at = "Done"
    /\ inflight.call[2].filtered_candidates = <<"t1", "t6">>
    /\ inflight.call[2].valid_candidates = <<"t6">>

\* both calls are waiting for the catalog to answer for the same track
C22_WitnessRace ==
    /\ \A c \in ConcCalls : inflight.call[c].at = "Fetch"
    /\ inflight.call[1].filtered_candidates[inflight.call[1].next]
          = inflight.call[2].filtered_candidates[inflight.call[2].next]

====
